---- MODULE Spec2Model ----
(***************************************************************************)
(* A model of the WebCrypto implementation: the algorithm registry, the   *)
(* CryptoKey object, the SubtleCrypto dispatcher and the AES-CTR counter   *)
(* overflow simulation.  Byte strings that come out of the external       *)
(* cryptographic provider are symbolic terms; strings that the code       *)
(* inspects character by character are sequences of characters.           *)
(***************************************************************************)
EXTENDS Integers, Sequences, FiniteSets, TLC

(***************************************************************************)
(* Bounds of the model.                                                    *)
(***************************************************************************)
MaxKeys == 2
MaxMat == 1
MaxBlocks == 5

(***************************************************************************)
(* Strings.  Algorithm names are sequences of characters so that          *)
(* String.prototype.toLowerCase can be modelled by what it does.           *)
(***************************************************************************)
UpperChars == <<"A","B","C","D","E","F","G","H","I","J","K","L","M",
                "N","O","P","Q","R","S","T","U","V","W","X","Y","Z">>
LowerChars == <<"a","b","c","d","e","f","g","h","i","j","k","l","m",
                "n","o","p","q","r","s","t","u","v","w","x","y","z">>

Chars == {UpperChars[i] : i \in DOMAIN UpperChars}
           \cup {LowerChars[i] : i \in DOMAIN LowerChars}
           \cup {"0","1","2","3","4","5","6","7","8","9","-","_"," "}

LowerChar ==
  [c \in Chars |->
     IF \E i \in DOMAIN UpperChars : UpperChars[i] = c
     THEN LowerChars[CHOOSE i \in DOMAIN UpperChars : UpperChars[i] = c]
     ELSE c]

toLowerCase(s) == [i \in DOMAIN s |-> LowerChar[s[i]]]

sAES_CTR == <<"A","E","S","-","C","T","R">>
sAES_CBC == <<"A","E","S","-","C","B","C">>
sAES_GCM == <<"A","E","S","-","G","C","M">>
sAES_KW == <<"A","E","S","-","K","W">>
sECDSA == <<"E","C","D","S","A">>
sHKDF == <<"H","K","D","F">>
sHMAC == <<"H","M","A","C">>
sPBKDF2 == <<"P","B","K","D","F","2">>
sRSASSA_PKCS1 == <<"R","S","A","S","S","A","-","P","K","C","S","1","-","v","1","_","5">>
sRSA_PSS == <<"R","S","A","-","P","S","S">>
sSHA_1 == <<"S","H","A","-","1">>
sSHA_256 == <<"S","H","A","-","2","5","6">>
sSHA_384 == <<"S","H","A","-","3","8","4">>
sSHA_512 == <<"S","H","A","-","5","1","2">>
sObject == <<"O","b","j","e","c","t">>
sConstructor == <<"c","o","n","s","t","r","u","c","t","o","r">>
sProto == <<"_","_","p","r","o","t","o","_","_">>
sToString == <<"t","o","S","t","r","i","n","g">>
sECDH == <<"E","C","D","H">>

(***************************************************************************)
(* Errors (lib/errors.js and the built-in ones).                           *)
(***************************************************************************)
NotSupportedError == "NotSupportedError"
InvalidAccessError == "InvalidAccessError"
OperationError == "OperationError"
DataError == "DataError"
SyntaxError == "SyntaxError"
TypeError == "TypeError"
RangeError == "RangeError"

(***************************************************************************)
(* The algorithm implementations as the registry sees them: a name and    *)
(* the set of properties whose value is a function.                        *)
(***************************************************************************)
aesBaseMembers == {"generateKey", "importKey", "exportKey", "get key length"}

AES_CTR == [kind |-> "algorithm", name |-> sAES_CTR,
            members |-> aesBaseMembers \cup {"_doCipher", "encrypt", "decrypt"}]
AES_CBC == [kind |-> "algorithm", name |-> sAES_CBC,
            members |-> aesBaseMembers \cup {"encrypt", "decrypt"}]
AES_GCM == [kind |-> "algorithm", name |-> sAES_GCM,
            members |-> aesBaseMembers \cup {"encrypt", "decrypt"}]
AES_KW == [kind |-> "algorithm", name |-> sAES_KW,
           members |-> aesBaseMembers \cup {"wrapKey", "unwrapKey"}]
ECDSA == [kind |-> "algorithm", name |-> sECDSA,
          members |-> {"generateKey", "importKey", "exportKey", "sign", "verify"}]
HKDF == [kind |-> "algorithm", name |-> sHKDF,
         members |-> {"deriveBits", "importKey"}]
HMAC == [kind |-> "algorithm", name |-> sHMAC,
         members |-> {"sign", "verify", "generateKey", "importKey", "exportKey"}]
PBKDF2 == [kind |-> "algorithm", name |-> sPBKDF2,
           members |-> {"deriveBits", "importKey"}]
rsaBaseMembers == {"generateKey", "importKey", "exportKey"}
RSASSA_PKCS1 == [kind |-> "algorithm", name |-> sRSASSA_PKCS1,
                 members |-> rsaBaseMembers \cup {"sign", "verify"}]
RSA_PSS == [kind |-> "algorithm", name |-> sRSA_PSS,
            members |-> rsaBaseMembers \cup {"sign", "verify"}]
implement(name) == [kind |-> "algorithm", name |-> name,
                    members |-> {"digest", "get hash function", "get hash block size"}]
SHA_1 == implement(sSHA_1)
SHA_256 == implement(sSHA_256)
SHA_384 == implement(sSHA_384)
SHA_512 == implement(sSHA_512)

algorithms == <<AES_CTR, AES_CBC, AES_GCM, AES_KW, ECDSA, HKDF, HMAC, PBKDF2,
                RSASSA_PKCS1, RSA_PSS, SHA_1, SHA_256, SHA_384, SHA_512>>

registryOps == {"encrypt", "decrypt", "sign", "verify", "deriveBits", "wrapKey",
                "unwrapKey", "digest", "generateKey", "importKey", "exportKey",
                "get key length", "get hash function", "get hash block size"}

(***************************************************************************)
(* The value `undefined`, and what a plain object literal inherits from   *)
(* Object.prototype: supportedAlgorithms[op] is built from `{}`, so a     *)
(* property read on it falls back to the prototype chain.                  *)
(***************************************************************************)
undefined == [kind |-> "undefined", name |-> <<>>, members |-> {}]

ObjectPrototype ==
  [k \in {sConstructor, sProto, sToString} |->
     IF k = sConstructor
     THEN [kind |-> "function", name |-> sObject, members |-> {}]
     ELSE IF k = sProto
     THEN [kind |-> "object", name |-> <<>>, members |-> {}]
     ELSE [kind |-> "function", name |-> sToString, members |-> {}]]

\* objectFromArray(algorithms, ...) for one operation: the own properties of
\* the object, a later algorithm of the list overwriting an earlier one.
objectFromArray(op) ==
  LET having == {i \in DOMAIN algorithms : op \in algorithms[i].members}
      keyOf == [i \in having |-> toLowerCase(algorithms[i].name)]
  IN  [k \in {keyOf[i] : i \in having} |->
         algorithms[CHOOSE i \in having :
            keyOf[i] = k /\ \A j \in having : keyOf[j] = k => j <= i]]

\* Built once when the module is loaded.
supportedAlgorithms == [op \in registryOps |-> objectFromArray(op)]

\* obj[key] on a plain object.
GetProperty(obj, key) ==
  IF key \in DOMAIN obj THEN obj[key]
  ELSE IF key \in DOMAIN ObjectPrototype THEN ObjectPrototype[key]
  ELSE undefined

(***************************************************************************)
(* The `algorithm` argument of an operation: a string, an object with a   *)
(* name and parameters, or something else.                                 *)
(***************************************************************************)
AlgString(s) == [t |-> "string", name |-> s, length |-> 0]
AlgObject(s, n) == [t |-> "object", name |-> s, length |-> n]
AlgNoName == [t |-> "object-without-name", name |-> <<>>, length |-> 0]
AlgUndefined == [t |-> "undefined", name |-> <<>>, length |-> 0]

\* algorithm.length as the implementations read it: a string has a length
\* of its own.
ParamLength(a) == IF a.t = "string" THEN Len(a.name) ELSE a.length

\* getAlgorithm(alg, op): the implementation, or the error thrown.
getAlgorithm(alg, op) ==
  IF alg.t \notin {"string", "object", "object-without-name"}
  THEN [err |-> SyntaxError, impl |-> undefined]
  ELSE IF alg.t = "object-without-name"
  THEN [err |-> SyntaxError, impl |-> undefined]
  ELSE LET impl == GetProperty(supportedAlgorithms[op], toLowerCase(alg.name))
       IN  IF impl = undefined
           THEN [err |-> NotSupportedError, impl |-> undefined]
           ELSE [err |-> "", impl |-> impl]

(***************************************************************************)
(* Byte strings and structured values.  Every value is a record with a    *)
(* `kind`; byte strings carry their byte length `len`.  What the external *)
(* provider computes is a term over its inputs.                            *)
(***************************************************************************)
Nil == [kind |-> "nil"]
Data(n, len) == [kind |-> "data", n |-> n, len |-> len]
True == [kind |-> "boolean", b |-> TRUE]
False == [kind |-> "boolean", b |-> FALSE]

IsBytes(v) == v.kind \in {"data", "ciphertext", "plaintext", "mac", "derived",
                          "json", "digest"}

\* encodeBase64Url / decodeBase64Url (lib/util.js)
encodeBase64Url(buf) == [kind |-> "base64url", of |-> buf]
decodeBase64Url(enc) ==
  IF enc.kind = "base64url" THEN [err |-> "", val |-> enc.of]
  ELSE [err |-> DataError, val |-> Nil]

\* Buffer.from(JSON.stringify(jwk), 'utf8') and JSON.parse(buf.toString('utf8'))
JSONstringify(v) == [kind |-> "json", of |-> v, len |-> 96]
JSONparse(buf) ==
  IF buf.kind = "json" THEN [err |-> "", val |-> buf.of]
  ELSE [err |-> SyntaxError, val |-> Nil]

\* bufferFromBufferSource (lib/idl.js)
bufferFromBufferSource(source) ==
  IF IsBytes(source) THEN [err |-> "", val |-> source]
  ELSE [err |-> TypeError, val |-> Nil]

Ok(v) == [err |-> "", val |-> v]
Throw(e) == [err |-> e, val |-> Nil]

(***************************************************************************)
(* lib/key.js                                                              *)
(***************************************************************************)
Usages == {"encrypt", "decrypt", "sign", "verify", "deriveKey", "deriveBits",
           "wrapKey", "unwrapKey"}

CryptoKey(type, algorithm, extractable, usages, keyMaterial) ==
  [kind |-> "key", type |-> type, algorithm |-> algorithm,
   extractable |-> extractable, usages |-> usages,
   keyMaterial |-> keyMaterial]

\* requireKeyUsage(key, usage): TRUE when it returns, FALSE when it throws
\* InvalidAccessError.
requireKeyUsage(key, usage) == usage \in key.usages

\* limitUsages (lib/util.js): TRUE when it returns.
limitUsages(usages, allowed) == \A u \in usages : u \in allowed

(***************************************************************************)
(* lib/algorithms/aes.js                                                   *)
(***************************************************************************)
aesAllowedUsages(impl) ==
  IF impl.name = sAES_KW THEN {"wrapKey", "unwrapKey"}
  ELSE {"encrypt", "decrypt", "wrapKey", "unwrapKey"}

\* `A${bits}${this.name.substr(4)}`
aesJwkAlg(impl, buf) == [bits |-> buf.len * 8, mode |-> SubSeq(impl.name, 5, Len(impl.name))]

aes_generateKey(impl, algorithm, extractable, usages, random) ==
  IF ~limitUsages(usages, aesAllowedUsages(impl)) THEN Throw(SyntaxError)
  ELSE LET length == ParamLength(algorithm) IN
       IF length \notin {128, 192, 256} THEN Throw(OperationError)
       ELSE Ok(CryptoKey("secret", [name |-> impl.name, length |-> length],
                         extractable, usages, Data(random, length \div 8)))

aes_importKey(impl, keyFormat, keyData, params, extractable, keyUsages) ==
  IF ~limitUsages(keyUsages, aesAllowedUsages(impl)) THEN Throw(SyntaxError)
  ELSE
    LET buf ==
          IF keyFormat = "raw" THEN bufferFromBufferSource(keyData)
          ELSE IF keyFormat = "jwk" THEN
            IF keyData.kind # "jwk" THEN Throw(DataError)
            ELSE IF keyData.kty # "oct" THEN Throw(DataError)
            ELSE LET b == decodeBase64Url(keyData.k) IN
                 IF b.err # "" THEN b
                 ELSE IF keyData.alg # aesJwkAlg(impl, b.val) THEN Throw(DataError)
                 ELSE IF ~limitUsages(keyUsages, keyData.key_ops) THEN Throw(DataError)
                 ELSE IF keyData.ext = FALSE /\ extractable THEN Throw(DataError)
                 ELSE b
          ELSE Throw(NotSupportedError)
    IN  IF buf.err # "" THEN buf
        ELSE IF buf.val.len \notin {16, 24, 32} THEN Throw(DataError)
        ELSE Ok(CryptoKey("secret",
                          [name |-> impl.name, length |-> buf.val.len * 8],
                          extractable, keyUsages, buf.val))

aes_exportKey(impl, format, key) ==
  LET buf == key.keyMaterial IN
  IF format = "raw" THEN Ok(buf)
  ELSE IF format = "jwk"
  THEN Ok([kind |-> "jwk", kty |-> "oct", alg |-> aesJwkAlg(impl, buf),
           k |-> encodeBase64Url(buf), key_ops |-> key.usages,
           ext |-> key.extractable])
  ELSE Throw(NotSupportedError)

aes_getKeyLength(algorithm) ==
  LET length == ParamLength(algorithm) IN
  IF length \notin {128, 192, 256} THEN Throw(OperationError)
  ELSE Ok([kind |-> "number", n |-> length])

\* What the provider's cipher adds to the length of the data.
cipherOverhead(name) ==
  IF name = sAES_KW THEN 8 ELSE IF name = sAES_GCM THEN 16
  ELSE IF name = sAES_CBC THEN 16 ELSE 0

\* createCipheriv(...).update(data) [+ final()]
Cipher(impl, fn, key, data) ==
  [kind |-> "ciphertext", alg |-> impl.name, fn |-> fn, by |-> key.keyMaterial,
   of |-> data, len |-> data.len + cipherOverhead(impl.name)]

\* createDecipheriv(...): the inverse of Cipher under the same key and
\* algorithm; anything else fails the integrity check or, for the stream
\* mode, gives unrelated bytes.
Decipher(impl, fn, key, data) ==
  IF /\ data.kind = "ciphertext" /\ data.alg = impl.name
     /\ data.by = key.keyMaterial
  THEN Ok(data.of)
  ELSE IF impl.name = sAES_CTR
  THEN Ok([kind |-> "plaintext", alg |-> impl.name, by |-> key.keyMaterial,
           of |-> data, len |-> data.len])
  ELSE Throw(OperationError)

\* AES_CTR.encrypt, AES_CBC.encrypt, AES_GCM.encrypt: the parameter checks,
\* then the provider.
aes_encrypt(impl, params, key, data) ==
  IF impl.name = sAES_CTR /\ (ParamLength(params) = 0 \/ ParamLength(params) > 128)
  THEN Throw(OperationError)
  ELSE Ok(Cipher(impl, "encrypt", key, data))

aes_decrypt(impl, params, key, data) ==
  IF impl.name = sAES_CTR /\ (ParamLength(params) = 0 \/ ParamLength(params) > 128)
  THEN Throw(OperationError)
  ELSE Decipher(impl, "decrypt", key, data)

\* AES_KW.wrapKey / unwrapKey
aes_wrapKey(impl, params, key, data) == Ok(Cipher(impl, "wrapKey", key, data))
aes_unwrapKey(impl, params, key, data) == Decipher(impl, "unwrapKey", key, data)

(***************************************************************************)
(* lib/algorithms/hkdf.js, lib/algorithms/pbkdf2.js                        *)
(***************************************************************************)
\* HKDF.importKey / PBKDF2.importKey without the check of extractable.
kdf_importKey_noExtractableCheck(impl, keyFormat, keyData, params, extractable, keyUsages) ==
  IF keyFormat # "raw" THEN Throw(NotSupportedError)
  ELSE IF ~limitUsages(keyUsages, {"deriveKey", "deriveBits"}) THEN Throw(SyntaxError)
  ELSE IF ~IsBytes(keyData) THEN Throw(TypeError)
  ELSE Ok(CryptoKey("secret", [name |-> impl.name, length |-> 0], extractable,
                    keyUsages, keyData))

\* HKDF.importKey / PBKDF2.importKey
kdf_importKey(impl, keyFormat, keyData, params, extractable, keyUsages) ==
  IF keyFormat # "raw" THEN Throw(NotSupportedError)
  ELSE IF ~limitUsages(keyUsages, {"deriveKey", "deriveBits"}) THEN Throw(SyntaxError)
  ELSE IF extractable # FALSE THEN Throw(SyntaxError)
  ELSE IF ~IsBytes(keyData) THEN Throw(TypeError)
  ELSE Ok(CryptoKey("secret", [name |-> impl.name, length |-> 0], extractable,
                    keyUsages, keyData))

\* The length argument null.
NullLength == -1

\* HKDF.deriveBits: length >>= 3, no check of length % 8.
HKDF_deriveBits(params, key, length) ==
  IF length = NullLength THEN Throw(OperationError)
  ELSE Ok([kind |-> "derived", alg |-> sHKDF, by |-> key.keyMaterial,
           len |-> length \div 8])

PBKDF2_deriveBits(params, key, length) ==
  IF length = NullLength \/ length % 8 # 0 THEN Throw(OperationError)
  ELSE Ok([kind |-> "derived", alg |-> sPBKDF2, by |-> key.keyMaterial,
           len |-> length \div 8])

(***************************************************************************)
(* lib/algorithms/hmac.js                                                  *)
(***************************************************************************)
MacLen == 32

HMAC_sign(algorithm, key, data) ==
  Ok([kind |-> "mac", by |-> key.keyMaterial, of |-> data, len |-> MacLen])

\* timingSafeEqual throws when the two lengths differ.
HMAC_verify(algorithm, key, signature, data) ==
  LET mac == HMAC_sign(algorithm, key, data).val IN
  IF ~IsBytes(signature) THEN Throw(TypeError)
  ELSE IF signature.len # mac.len THEN Throw(RangeError)
  ELSE Ok(IF signature = mac THEN True ELSE False)

HMAC_generateKey(algorithm, extractable, usages, random) ==
  IF ~limitUsages(usages, {"sign", "verify"}) THEN Throw(SyntaxError)
  ELSE IF algorithm.t = "string" THEN Throw(SyntaxError)
  ELSE IF algorithm.length = 0 THEN Throw(DataError)
  ELSE Ok(CryptoKey("secret", [name |-> sHMAC, length |-> algorithm.length],
                    extractable, usages, Data(random, algorithm.length \div 8)))

\* data.length << 3 on a signed 32-bit integer.
shiftLeft3(n) == LET m == n % 536870912 IN IF m >= 268435456 THEN (m - 536870912) * 8 ELSE m * 8

\* The length member of a descriptor that has none.
UndefinedLength == -2

HMAC_importKey(keyFormat, keyData, params, extractable, keyUsages) ==
  IF ~limitUsages(keyUsages, {"sign", "verify"}) THEN Throw(SyntaxError)
  ELSE IF params.t = "string" THEN Throw(SyntaxError)
  ELSE
    LET data ==
          IF keyFormat = "raw"
          THEN (IF IsBytes(keyData) THEN Ok(keyData) ELSE Throw(TypeError))
          ELSE IF keyFormat = "jwk" THEN
            IF keyData.kind # "jwk" THEN Throw(DataError)
            ELSE IF keyData.kty # "oct" THEN Throw(DataError)
            ELSE LET b == decodeBase64Url(keyData.k) IN
                 IF b.err # "" THEN b
                 ELSE IF keyData.alg # [bits |-> 256, mode |-> <<"H","S">>]
                 THEN Throw(DataError)
                 ELSE IF ~limitUsages(keyUsages, keyData.key_ops) THEN Throw(DataError)
                 ELSE IF keyData.ext = FALSE /\ extractable THEN Throw(DataError)
                 ELSE b
          ELSE Throw(NotSupportedError)
    IN  IF data.err # "" THEN data
        ELSE IF data.val.len = 0 THEN Throw(DataError)
        ELSE LET dataLength == shiftLeft3(data.val.len)
                 length == IF params.length = UndefinedLength THEN dataLength
                           ELSE params.length
             IN  IF params.length # UndefinedLength
                    /\ (length > dataLength \/ length <= dataLength - 8)
                 THEN Throw(DataError)
                 ELSE Ok(CryptoKey("secret", [name |-> sHMAC, length |-> length],
                                   extractable, keyUsages, data.val))

HMAC_exportKey(format, key) ==
  LET bits == key.keyMaterial IN
  IF format = "raw" THEN Ok(bits)
  ELSE IF format = "jwk"
  THEN Ok([kind |-> "jwk", kty |-> "oct", alg |-> [bits |-> 256, mode |-> <<"H","S">>],
           k |-> encodeBase64Url(bits), key_ops |-> key.usages,
           ext |-> key.extractable])
  ELSE Throw(NotSupportedError)

\* lib/algorithms/sha.js
SHA_digest(impl, params, data) ==
  Ok([kind |-> "digest", alg |-> impl.name, of |-> data, len |-> 32])

(***************************************************************************)
(* Calling a member of an implementation object: alg[member](...).  A     *)
(* member that is not a function cannot be called (TypeError).  `calls`   *)
(* lists the members of implementations that a dispatcher call invoked,   *)
(* in order, each with the data it was given.                              *)
(***************************************************************************)
Call(impl, member, data) == [impl |-> impl.name, member |-> member, data |-> data]

IsAes(impl) == impl.name \in {sAES_CTR, sAES_CBC, sAES_GCM, sAES_KW}
IsKdf(impl) == impl.name \in {sHKDF, sPBKDF2}

call_encrypt(impl, params, key, data) ==
  IF "encrypt" \notin impl.members THEN Throw(TypeError)
  ELSE aes_encrypt(impl, params, key, data)

call_decrypt(impl, params, key, data) ==
  IF "decrypt" \notin impl.members THEN Throw(TypeError)
  ELSE aes_decrypt(impl, params, key, data)

call_wrapKey(impl, params, key, data) ==
  IF "wrapKey" \notin impl.members THEN Throw(TypeError)
  ELSE aes_wrapKey(impl, params, key, data)

call_unwrapKey(impl, params, key, data) ==
  IF "unwrapKey" \notin impl.members THEN Throw(TypeError)
  ELSE aes_unwrapKey(impl, params, key, data)

call_sign(impl, algorithm, key, data) ==
  IF "sign" \notin impl.members THEN Throw(TypeError)
  ELSE HMAC_sign(algorithm, key, data)

call_verify(impl, algorithm, key, signature, data) ==
  IF "verify" \notin impl.members THEN Throw(TypeError)
  ELSE HMAC_verify(algorithm, key, signature, data)

call_digest(impl, params, data) ==
  IF "digest" \notin impl.members THEN Throw(TypeError)
  ELSE SHA_digest(impl, params, data)

call_generateKey(impl, algorithm, extractable, usages, random) ==
  IF "generateKey" \notin impl.members THEN Throw(TypeError)
  ELSE IF IsAes(impl) THEN aes_generateKey(impl, algorithm, extractable, usages, random)
  ELSE HMAC_generateKey(algorithm, extractable, usages, random)

call_importKey(impl, keyFormat, keyData, params, extractable, keyUsages) ==
  IF "importKey" \notin impl.members THEN Throw(TypeError)
  ELSE IF IsAes(impl)
  THEN aes_importKey(impl, keyFormat, keyData, params, extractable, keyUsages)
  ELSE IF IsKdf(impl)
  THEN kdf_importKey(impl, keyFormat, keyData, params, extractable, keyUsages)
  ELSE HMAC_importKey(keyFormat, keyData, params, extractable, keyUsages)

call_exportKey(impl, format, key) ==
  IF "exportKey" \notin impl.members THEN Throw(TypeError)
  ELSE IF IsAes(impl) THEN aes_exportKey(impl, format, key)
  ELSE HMAC_exportKey(format, key)

call_deriveBits(impl, params, key, length) ==
  IF "deriveBits" \notin impl.members THEN Throw(TypeError)
  ELSE IF impl.name = sHKDF THEN HKDF_deriveBits(params, key, length)
  ELSE PBKDF2_deriveBits(params, key, length)

call_getKeyLength(impl, algorithm) ==
  IF "get key length" \notin impl.members THEN Throw(TypeError)
  ELSE aes_getKeyLength(algorithm)

\* Whether calling alg[member] enters the implementation at all.
Calls(impl, member, data) ==
  IF member \in impl.members THEN <<Call(impl, member, data)>> ELSE <<>>

\* key.algorithm handed to getAlgorithm: an object with a name.
KeyAlg(key) == AlgObject(key.algorithm.name, key.algorithm.length)

(***************************************************************************)
(* lib/subtle.js: the SubtleCrypto dispatcher.  Each operation gives the  *)
(* outcome of the call ("ok" or the name of the error thrown), its result *)
(* and the implementation members it invoked.                              *)
(***************************************************************************)
Done(outcome, result, calls) ==
  [outcome |-> outcome, result |-> result, calls |-> calls]
Fail(e, calls) == Done(e, Nil, calls)
Finish(r, calls) == IF r.err # "" THEN Fail(r.err, calls) ELSE Done("ok", r.val, calls)

toBuffer(data) == data

encrypt(algorithm, key, data) ==
  LET alg == getAlgorithm(algorithm, "encrypt") IN
  IF alg.err # "" THEN Fail(alg.err, <<>>)
  ELSE IF key.algorithm.name # alg.impl.name THEN Fail(InvalidAccessError, <<>>)
  ELSE IF ~requireKeyUsage(key, "encrypt") THEN Fail(InvalidAccessError, <<>>)
  ELSE Finish(call_encrypt(alg.impl, algorithm, key, toBuffer(data)),
              Calls(alg.impl, "encrypt", data))

decrypt(algorithm, key, data) ==
  LET alg == getAlgorithm(algorithm, "decrypt") IN
  IF alg.err # "" THEN Fail(alg.err, <<>>)
  ELSE IF key.algorithm.name # alg.impl.name THEN Fail(InvalidAccessError, <<>>)
  ELSE IF ~requireKeyUsage(key, "decrypt") THEN Fail(InvalidAccessError, <<>>)
  ELSE Finish(call_decrypt(alg.impl, algorithm, key, toBuffer(data)),
              Calls(alg.impl, "decrypt", data))

sign(algorithm, key, data) ==
  LET alg == getAlgorithm(algorithm, "sign") IN
  IF alg.err # "" THEN Fail(alg.err, <<>>)
  ELSE IF alg.impl.name # key.algorithm.name THEN Fail(InvalidAccessError, <<>>)
  ELSE IF ~requireKeyUsage(key, "sign") THEN Fail(InvalidAccessError, <<>>)
  ELSE Finish(call_sign(alg.impl, algorithm, key, data),
              Calls(alg.impl, "sign", data))

verify(algorithm, key, signature, data) ==
  LET alg == getAlgorithm(algorithm, "verify") IN
  IF alg.err # "" THEN Fail(alg.err, <<>>)
  ELSE IF alg.impl.name # key.algorithm.name THEN Fail(InvalidAccessError, <<>>)
  ELSE IF ~requireKeyUsage(key, "verify") THEN Fail(InvalidAccessError, <<>>)
  ELSE Finish(call_verify(alg.impl, algorithm, key, signature, data),
              Calls(alg.impl, "verify", data))

digest(algorithm, data) ==
  LET alg == getAlgorithm(algorithm, "digest") IN
  IF alg.err # "" THEN Fail(alg.err, <<>>)
  ELSE Finish(call_digest(alg.impl, algorithm, toBuffer(data)),
              Calls(alg.impl, "digest", data))

generateKey(algorithm, extractable, keyUsages, random) ==
  LET alg == getAlgorithm(algorithm, "generateKey") IN
  IF alg.err # "" THEN Fail(alg.err, <<>>)
  ELSE Finish(call_generateKey(alg.impl, algorithm, extractable, keyUsages, random),
              Calls(alg.impl, "generateKey", Nil))

\* deriveKey importing with the derivation algorithm's importer.
deriveKey_derivationImporter(algorithm, baseKey, derivedKeyType, extractable, keyUsages) ==
  LET alg == getAlgorithm(algorithm, "deriveBits") IN
  IF alg.err # "" THEN Fail(alg.err, <<>>)
  ELSE IF alg.impl.name # baseKey.algorithm.name THEN Fail(InvalidAccessError, <<>>)
  ELSE
    LET keyAlg == getAlgorithm(derivedKeyType, "get key length") IN
    IF keyAlg.err # "" THEN Fail(keyAlg.err, <<>>)
    ELSE
      LET length == call_getKeyLength(keyAlg.impl, derivedKeyType)
          c1 == Calls(keyAlg.impl, "get key length", Nil)
      IN
      IF length.err # "" THEN Fail(length.err, c1)
      ELSE IF ~requireKeyUsage(baseKey, "deriveKey") THEN Fail(InvalidAccessError, c1)
      ELSE
        LET bits == call_deriveBits(alg.impl, algorithm, baseKey, length.val.n)
            c2 == c1 \o Calls(alg.impl, "deriveBits", Nil)
        IN
        IF bits.err # "" THEN Fail(bits.err, c2)
        ELSE Finish(call_importKey(alg.impl, "raw", bits.val, derivedKeyType,
                                   extractable, keyUsages),
                    c2 \o Calls(alg.impl, "importKey", bits.val))
deriveKey(algorithm, baseKey, derivedKeyType, extractable, keyUsages) ==
  LET alg == getAlgorithm(algorithm, "deriveBits") IN
  IF alg.err # "" THEN Fail(alg.err, <<>>)
  ELSE IF alg.impl.name # baseKey.algorithm.name THEN Fail(InvalidAccessError, <<>>)
  ELSE
    LET keyAlg == getAlgorithm(derivedKeyType, "get key length") IN
    IF keyAlg.err # "" THEN Fail(keyAlg.err, <<>>)
    ELSE
      LET length == call_getKeyLength(keyAlg.impl, derivedKeyType)
          c1 == Calls(keyAlg.impl, "get key length", Nil)
      IN
      IF length.err # "" THEN Fail(length.err, c1)
      ELSE IF ~requireKeyUsage(baseKey, "deriveKey") THEN Fail(InvalidAccessError, c1)
      ELSE
        LET bits == call_deriveBits(alg.impl, algorithm, baseKey, length.val.n)
            c2 == c1 \o Calls(alg.impl, "deriveBits", Nil)
        IN
        IF bits.err # "" THEN Fail(bits.err, c2)
        ELSE Finish(call_importKey(keyAlg.impl, "raw", bits.val, derivedKeyType,
                                   extractable, keyUsages),
                    c2 \o Calls(keyAlg.impl, "importKey", bits.val))

deriveBits(algorithm, key, length) ==
  LET alg == getAlgorithm(algorithm, "deriveBits") IN
  IF alg.err # "" THEN Fail(alg.err, <<>>)
  ELSE IF alg.impl.name # key.algorithm.name THEN Fail(InvalidAccessError, <<>>)
  ELSE IF ~requireKeyUsage(key, "deriveBits") THEN Fail(InvalidAccessError, <<>>)
  ELSE Finish(call_deriveBits(alg.impl, algorithm, key, length),
              Calls(alg.impl, "deriveBits", Nil))

importKey(keyFormat, keyData, algorithm, extractable, keyUsages) ==
  LET alg == getAlgorithm(algorithm, "importKey") IN
  IF alg.err # "" THEN Fail(alg.err, <<>>)
  ELSE Finish(call_importKey(alg.impl, keyFormat, keyData, algorithm, extractable,
                             keyUsages),
              Calls(alg.impl, "importKey", keyData))

\* exportKey without the check of the extractable flag.
exportKey_noExtractableCheck(format, key) ==
  LET alg == getAlgorithm(KeyAlg(key), "exportKey") IN
  IF alg.err # "" THEN Fail(alg.err, <<>>)
  ELSE Finish(call_exportKey(alg.impl, format, key),
              Calls(alg.impl, "exportKey", Nil))
exportKey(format, key) ==
  LET alg == getAlgorithm(KeyAlg(key), "exportKey") IN
  IF alg.err # "" THEN Fail(alg.err, <<>>)
  ELSE IF ~key.extractable THEN Fail(InvalidAccessError, <<>>)
  ELSE Finish(call_exportKey(alg.impl, format, key),
              Calls(alg.impl, "exportKey", Nil))

\* The lookup without its fallback to the second member.
getAlgorithmEither_noFallback(a, first, second) ==
  LET r1 == getAlgorithm(a, first) IN
  [err |-> r1.err, impl |-> r1.impl, fn |-> first]

getAlgorithmEither(a, first, second) ==
  \* try { getAlgorithm(a, first) } catch { getAlgorithm(a, second) }
  LET r1 == getAlgorithm(a, first) IN
  IF r1.err = "" THEN [err |-> "", impl |-> r1.impl, fn |-> first]
  ELSE LET r2 == getAlgorithm(a, second) IN
       [err |-> r2.err, impl |-> r2.impl, fn |-> second]

\* wrapKey without the check of the extractable flag.
wrapKey_noExtractableCheck(format, key, wrappingKey, wrapAlgorithm) ==
  LET alg == getAlgorithmEither(wrapAlgorithm, "wrapKey", "encrypt") IN
  IF alg.err # "" THEN Fail(alg.err, <<>>)
  ELSE IF wrappingKey.algorithm.name # alg.impl.name THEN Fail(InvalidAccessError, <<>>)
  ELSE IF ~requireKeyUsage(wrappingKey, "wrapKey") THEN Fail(InvalidAccessError, <<>>)
  ELSE
    LET exportAlg == getAlgorithm(KeyAlg(key), "exportKey") IN
    IF exportAlg.err # "" THEN Fail(exportAlg.err, <<>>)
    ELSE
      LET exported == call_exportKey(exportAlg.impl, format, key)
          c1 == Calls(exportAlg.impl, "exportKey", Nil)
      IN
      IF exported.err # "" THEN Fail(exported.err, c1)
      ELSE
        LET bytes == IF format = "jwk" THEN JSONstringify(exported.val)
                     ELSE exported.val
        IN  Finish(IF alg.fn = "wrapKey"
                   THEN call_wrapKey(alg.impl, wrapAlgorithm, wrappingKey, bytes)
                   ELSE call_encrypt(alg.impl, wrapAlgorithm, wrappingKey, bytes),
                   c1 \o Calls(alg.impl, alg.fn, bytes))
wrapKey(format, key, wrappingKey, wrapAlgorithm) ==
  LET alg == getAlgorithmEither(wrapAlgorithm, "wrapKey", "encrypt") IN
  IF alg.err # "" THEN Fail(alg.err, <<>>)
  ELSE IF wrappingKey.algorithm.name # alg.impl.name THEN Fail(InvalidAccessError, <<>>)
  ELSE IF ~requireKeyUsage(wrappingKey, "wrapKey") THEN Fail(InvalidAccessError, <<>>)
  ELSE
    LET exportAlg == getAlgorithm(KeyAlg(key), "exportKey") IN
    IF exportAlg.err # "" THEN Fail(exportAlg.err, <<>>)
    ELSE IF ~key.extractable THEN Fail(InvalidAccessError, <<>>)
    ELSE
      LET exported == call_exportKey(exportAlg.impl, format, key)
          c1 == Calls(exportAlg.impl, "exportKey", Nil)
      IN
      IF exported.err # "" THEN Fail(exported.err, c1)
      ELSE
        LET bytes == IF format = "jwk" THEN JSONstringify(exported.val)
                     ELSE exported.val
        IN  Finish(IF alg.fn = "wrapKey"
                   THEN call_wrapKey(alg.impl, wrapAlgorithm, wrappingKey, bytes)
                   ELSE call_encrypt(alg.impl, wrapAlgorithm, wrappingKey, bytes),
                   c1 \o Calls(alg.impl, alg.fn, bytes))

\* The steps of unwrapKey without the comparison of the names.
unwrapWith_noNameCheck(alg, importAlg, format, wrappedKey, unwrappingKey, unwrapAlgorithm, unwrappedKeyAlgorithm, extractable, keyUsages) ==
  IF ~requireKeyUsage(unwrappingKey, "unwrapKey") THEN Fail(InvalidAccessError, <<>>)
  ELSE
    LET unwrapped == IF alg.fn = "unwrapKey"
                     THEN call_unwrapKey(alg.impl, unwrapAlgorithm, unwrappingKey,
                                         wrappedKey)
                     ELSE call_decrypt(alg.impl, unwrapAlgorithm, unwrappingKey,
                                       wrappedKey)
        c1 == Calls(alg.impl, alg.fn, wrappedKey)
    IN
    IF unwrapped.err # "" THEN Fail(unwrapped.err, c1)
    ELSE
      LET key == IF format = "jwk" THEN JSONparse(unwrapped.val)
                 ELSE Ok(unwrapped.val)
      IN
      IF key.err # "" THEN Fail(key.err, c1)
      ELSE Finish(call_importKey(importAlg.impl, format, key.val,
                                 unwrappedKeyAlgorithm, extractable, keyUsages),
                  c1 \o Calls(importAlg.impl, "importKey", key.val))
unwrapWith(alg, importAlg, format, wrappedKey, unwrappingKey, unwrapAlgorithm, unwrappedKeyAlgorithm, extractable, keyUsages) ==
  \* The steps of unwrapKey once the importer has been chosen.
  IF unwrappingKey.algorithm.name # alg.impl.name THEN Fail(InvalidAccessError, <<>>)
  ELSE IF ~requireKeyUsage(unwrappingKey, "unwrapKey") THEN Fail(InvalidAccessError, <<>>)
  ELSE
    LET unwrapped == IF alg.fn = "unwrapKey"
                     THEN call_unwrapKey(alg.impl, unwrapAlgorithm, unwrappingKey,
                                         wrappedKey)
                     ELSE call_decrypt(alg.impl, unwrapAlgorithm, unwrappingKey,
                                       wrappedKey)
        c1 == Calls(alg.impl, alg.fn, wrappedKey)
    IN
    IF unwrapped.err # "" THEN Fail(unwrapped.err, c1)
    ELSE
      LET key == IF format = "jwk" THEN JSONparse(unwrapped.val)
                 ELSE Ok(unwrapped.val)
      IN
      IF key.err # "" THEN Fail(key.err, c1)
      ELSE Finish(call_importKey(importAlg.impl, format, key.val,
                                 unwrappedKeyAlgorithm, extractable, keyUsages),
                  c1 \o Calls(importAlg.impl, "importKey", key.val))

unwrapKey(format, wrappedKey, unwrappingKey, unwrapAlgorithm, unwrappedKeyAlgorithm, extractable, keyUsages) ==
  LET alg == getAlgorithmEither(unwrapAlgorithm, "unwrapKey", "decrypt") IN
  IF alg.err # "" THEN Fail(alg.err, <<>>)
  ELSE
    LET importAlg == getAlgorithm(unwrappedKeyAlgorithm, "importKey") IN
    IF importAlg.err # "" THEN Fail(importAlg.err, <<>>)
    ELSE unwrapWith(alg, importAlg, format, wrappedKey, unwrappingKey,
                    unwrapAlgorithm, unwrappedKeyAlgorithm, extractable, keyUsages)

\* unwrapKey as the ES-module revision of subtle.js has it: the importer is
\* resolved from unwrappingKey.algorithm.
unwrapKeyEsm(format, wrappedKey, unwrappingKey, unwrapAlgorithm, unwrappedKeyAlgorithm, extractable, keyUsages) ==
  LET alg == getAlgorithmEither(unwrapAlgorithm, "unwrapKey", "decrypt") IN
  IF alg.err # "" THEN Fail(alg.err, <<>>)
  ELSE
    LET importAlg == getAlgorithm(KeyAlg(unwrappingKey), "importKey") IN
    IF importAlg.err # "" THEN Fail(importAlg.err, <<>>)
    ELSE unwrapWith(alg, importAlg, format, wrappedKey, unwrappingKey,
                    unwrapAlgorithm, unwrappedKeyAlgorithm, extractable, keyUsages)

\* lib/extensions.js
unsafeExportKey(format, key) ==
  LET alg == getAlgorithm(KeyAlg(key), "exportKey") IN
  IF alg.err # "" THEN Fail(alg.err, <<>>)
  ELSE Finish(call_exportKey(alg.impl, format, key),
              Calls(alg.impl, "exportKey", Nil))

(***************************************************************************)
(* The state: the CryptoKey objects the caller holds, the last call made  *)
(* on the package with its arguments and what came of it.                  *)
(***************************************************************************)
VARIABLES
  keys,   \* the CryptoKey objects the caller holds
  last,   \* the last call of the dispatcher: arguments, outcome, members invoked
  ctr,    \* an AES-CTR encryption and decryption with concrete counter blocks
  probe   \* a lookup in the registry

vars == <<keys, last, ctr, probe>>

\* The parts of the state a run of the dispatcher leaves alone.
NoCtr == [phase |-> "off"]
NoProbe == [phase |-> "off"]

NoArgs == [format |-> "", key |-> Nil, key2 |-> Nil, alg |-> AlgUndefined,
           alg2 |-> AlgUndefined, data |-> Nil, data2 |-> Nil,
           extractable |-> FALSE, usages |-> {}, length |-> 0]

Record(op, args, r) ==
  [op |-> op, args |-> args, outcome |-> r.outcome, result |-> r.result,
   calls |-> r.calls]

(***************************************************************************)
(* The arguments callers pass.                                             *)
(***************************************************************************)
inCTR == AlgObject(sAES_CTR, 128)
inKW == AlgObject(toLowerCase(sAES_KW), 128)
inHKDF == AlgObject(sHKDF, 128)
inHMAC == AlgObject(sHMAC, 128)
inCTRstring == AlgString(sAES_CTR)
inConstructor == AlgString(sConstructor)
inSHA == AlgString(sSHA_256)
inPBKDF2 == AlgObject(sPBKDF2, 128)

AlgArgs == {inCTR, inKW, inHKDF, inHMAC, inCTRstring, inConstructor, AlgUndefined}
TargetAlgArgs == {inCTR, inCTRstring, inHKDF, inConstructor, inSHA}

UsagePairs ==
  { [e |-> TRUE, u |-> {"encrypt", "decrypt"}],
    [e |-> FALSE, u |-> {"wrapKey", "unwrapKey"}],
    [e |-> FALSE, u |-> {"deriveKey", "deriveBits"}],
    [e |-> FALSE, u |-> {"deriveBits"}],
    [e |-> TRUE, u |-> {"sign", "verify"}],
    [e |-> FALSE, u |-> {"verify"}] }

\* What the callers of unwrapKey pass: an algorithm with unwrapKey, one with
\* decrypt only, one with neither and a malformed one; a target that is a
\* cipher, one that is not, and one that cannot import.
UnwrapAlgArgs == {inCTR, inKW, inHMAC, AlgUndefined}
UnwrapTargetArgs == {inCTR, inHKDF, inSHA}
UnwrapUsagePairs ==
  { [e |-> TRUE, u |-> {"encrypt", "decrypt"}],
    [e |-> FALSE, u |-> {"wrapKey", "unwrapKey"}],
    [e |-> FALSE, u |-> {"deriveKey", "deriveBits"}] }

Formats == {"raw", "jwk"}
ExportFormats == {"raw", "jwk", "spki"}
DataIn == {Data(n, 16) : n \in 1..MaxMat}
Lengths == {128, 100}


\* No call result is at hand.
Idle == last.op = "none"

\* Signatures that no sign call produced: one as long as a MAC, one shorter.
ForgedSignatures == {Data(1, MacLen), Data(1, MacLen \div 2)}

\* Byte strings the caller passes: fresh data, or the result of the previous
\* call when it has one of the given kinds.
Passed(kinds) ==
  IF Idle THEN DataIn
  ELSE IF last.outcome = "ok" /\ last.result.kind \in kinds THEN {last.result}
  ELSE {}

Init ==
  /\ keys = {}
  /\ last = Record("none", NoArgs, Done("ok", Nil, <<>>))
  /\ ctr = NoCtr
  /\ probe = NoProbe

\* A call whose result the caller uses at most in the next call: bytes, a
\* boolean, a JWK, or a derived or unwrapped CryptoKey.
Returns(op, args, r) ==
  /\ last' = Record(op, args, r)
  /\ UNCHANGED <<keys, ctr, probe>>

\* A call that returns a CryptoKey which the caller keeps for later calls:
\* generateKey and importKey.
ReturnsKey(op, args, r) ==
  /\ last' = Record(op, args, r)
  /\ keys' = IF r.outcome = "ok" THEN keys \cup {r.result} ELSE keys
  /\ Cardinality(keys') <= MaxKeys
  /\ UNCHANGED <<ctr, probe>>

Encrypt ==
  /\ Idle
  /\ \E a \in AlgArgs, k \in keys, d \in DataIn :
    Returns("encrypt", [NoArgs EXCEPT !.alg = a, !.key = k, !.data = d],
            encrypt(a, k, d))

Decrypt ==
  \E a \in AlgArgs, k \in keys, d \in Passed({"ciphertext"}) :
    Returns("decrypt", [NoArgs EXCEPT !.alg = a, !.key = k, !.data = d],
            decrypt(a, k, d))

Sign ==
  /\ Idle
  /\ \E a \in AlgArgs, k \in keys, d \in DataIn :
    Returns("sign", [NoArgs EXCEPT !.alg = a, !.key = k, !.data = d],
            sign(a, k, d))

Verify ==
  \E a \in AlgArgs, k \in keys, d \in DataIn,
     sg \in Passed({"mac"}) \cup (IF Idle THEN ForgedSignatures ELSE {}) :
    Returns("verify",
            [NoArgs EXCEPT !.alg = a, !.key = k, !.data = d, !.data2 = sg],
            verify(a, k, sg, d))

Digest ==
  /\ Idle
  /\ \E a \in AlgArgs \cup {inSHA}, d \in DataIn :
    Returns("digest", [NoArgs EXCEPT !.alg = a, !.data = d], digest(a, d))

GenerateKey ==
  /\ Idle
  /\ \E a \in AlgArgs, p \in UsagePairs, random \in 1..MaxMat :
    ReturnsKey("generateKey",
               [NoArgs EXCEPT !.alg = a, !.extractable = p.e, !.usages = p.u],
               generateKey(a, p.e, p.u, random))

DeriveKey ==
  /\ Idle
  /\ \E a \in AlgArgs \cup {inPBKDF2}, k \in keys, t \in TargetAlgArgs,
        p \in UsagePairs :
    Returns("deriveKey",
            [NoArgs EXCEPT !.alg = a, !.key = k, !.alg2 = t,
                           !.extractable = p.e, !.usages = p.u],
            deriveKey(a, k, t, p.e, p.u))

DeriveBits ==
  /\ Idle
  /\ \E a \in AlgArgs \cup {inPBKDF2}, k \in keys, n \in Lengths :
    Returns("deriveBits", [NoArgs EXCEPT !.alg = a, !.key = k, !.length = n],
            deriveBits(a, k, n))

ImportKey ==
  \E f \in Formats, a \in AlgArgs, p \in UsagePairs,
     d \in Passed({"jwk"}) :
    ReturnsKey("importKey",
               [NoArgs EXCEPT !.format = f, !.alg = a, !.data = d,
                              !.extractable = p.e, !.usages = p.u],
               importKey(f, d, a, p.e, p.u))

ExportKey ==
  /\ Idle
  /\ \E f \in ExportFormats, k \in keys :
    Returns("exportKey", [NoArgs EXCEPT !.format = f, !.key = k],
            exportKey(f, k))

WrapKey ==
  /\ Idle
  /\ \E f \in Formats, k \in keys, w \in keys, a \in AlgArgs :
    Returns("wrapKey",
            [NoArgs EXCEPT !.format = f, !.key = k, !.key2 = w, !.alg = a],
            wrapKey(f, k, w, a))

UnwrapKey ==
  \E f \in Formats, d \in Passed({"ciphertext"}), w \in keys,
     a \in UnwrapAlgArgs, t \in UnwrapTargetArgs, p \in UnwrapUsagePairs :
    Returns("unwrapKey",
            [NoArgs EXCEPT !.format = f, !.data = d, !.key2 = w, !.alg = a,
                           !.alg2 = t, !.extractable = p.e, !.usages = p.u],
            unwrapKey(f, d, w, a, t, p.e, p.u))

UnwrapKeyEsm ==
  \E f \in Formats, d \in Passed({"ciphertext"}), w \in keys,
     a \in UnwrapAlgArgs, t \in UnwrapTargetArgs, p \in UnwrapUsagePairs :
    Returns("unwrapKey (subtle.js)",
            [NoArgs EXCEPT !.format = f, !.data = d, !.key2 = w, !.alg = a,
                           !.alg2 = t, !.extractable = p.e, !.usages = p.u],
            unwrapKeyEsm(f, d, w, a, t, p.e, p.u))

UnsafeExportKey ==
  /\ Idle
  /\ \E f \in ExportFormats, k \in keys :
    Returns("unsafeExportKey", [NoArgs EXCEPT !.format = f, !.key = k],
            unsafeExportKey(f, k))

\* The caller lets go of the result of the previous call.
Discard ==
  /\ ~Idle
  /\ last' = Record("none", NoArgs, Done("ok", Nil, <<>>))
  /\ UNCHANGED <<keys, ctr, probe>>

Next ==
  \/ Encrypt \/ Decrypt \/ Sign \/ Verify \/ Digest
  \/ GenerateKey \/ DeriveKey \/ DeriveBits
  \/ ImportKey \/ ExportKey
  \/ WrapKey \/ UnwrapKey \/ UnwrapKeyEsm
  \/ UnsafeExportKey
  \/ Discard

Spec == Init /\ [][Next]_vars

TypeOK ==
  /\ Cardinality(keys) <= MaxKeys
  /\ \A k \in keys : k.kind = "key" /\ k.usages \subseteq Usages
  /\ last.outcome \in {"ok", NotSupportedError, InvalidAccessError,
                       OperationError, DataError, SyntaxError, TypeError,
                       RangeError}

(***************************************************************************)
(* Vocabulary of the properties.                                           *)
(***************************************************************************)
\* Some registered algorithm of that name, ignoring case, has the member.
Supports(a, op) ==
  /\ a.t \in {"string", "object"}
  /\ \E i \in DOMAIN algorithms :
       /\ toLowerCase(algorithms[i].name) = toLowerCase(a.name)
       /\ op \in algorithms[i].members

\* The registered algorithm of that name.
Registered(a) ==
  algorithms[CHOOSE i \in DOMAIN algorithms :
               toLowerCase(algorithms[i].name) = toLowerCase(a.name)]

UnwrapOps == {"unwrapKey", "unwrapKey (subtle.js)"}
UsageOps == {"encrypt", "decrypt", "sign", "verify", "deriveBits", "deriveKey",
             "wrapKey"} \cup UnwrapOps

RequiredUsage(op) == IF op \in UnwrapOps THEN "unwrapKey" ELSE op

\* The key whose usages the operation checks.
UsageKey(l) == IF l.op \in {"wrapKey"} \cup UnwrapOps THEN l.args.key2 ELSE l.args.key

\* The algorithms named by the arguments of the call are all supported.
AlgorithmsSupported(l) ==
  CASE l.op \in {"encrypt", "decrypt", "sign", "verify", "deriveBits"} ->
         Supports(l.args.alg, l.op)
    [] l.op = "deriveKey" ->
         /\ Supports(l.args.alg, "deriveBits")
         /\ Supports(l.args.alg2, "get key length")
         /\ Supports(l.args.alg2, "importKey")
    [] l.op = "wrapKey" ->
         Supports(l.args.alg, "wrapKey") \/ Supports(l.args.alg, "encrypt")
    [] l.op \in UnwrapOps ->
         /\ Supports(l.args.alg, "unwrapKey") \/ Supports(l.args.alg, "decrypt")
         /\ Supports(l.args.alg2, "importKey")
    [] OTHER -> FALSE

(***************************************************************************)
(* The implementation the call resolved from its algorithm argument, for  *)
(* the operations that compare its name with the key's.                    *)
(***************************************************************************)
NameCheckedOps == {"encrypt", "decrypt", "sign", "verify", "wrapKey"} \cup UnwrapOps

ResolvedFor(l) ==
  IF l.op = "wrapKey" THEN getAlgorithmEither(l.args.alg, "wrapKey", "encrypt")
  ELSE IF l.op \in UnwrapOps
  THEN getAlgorithmEither(l.args.alg, "unwrapKey", "decrypt")
  ELSE [err |-> getAlgorithm(l.args.alg, l.op).err,
        impl |-> getAlgorithm(l.args.alg, l.op).impl, fn |-> l.op]

NameMismatch(l) ==
  /\ l.op \in NameCheckedOps
  /\ ResolvedFor(l).err = ""
  /\ UsageKey(l).algorithm.name # ResolvedFor(l).impl.name

(***************************************************************************)
(* C1: for encrypt, decrypt, sign, verify, deriveBits, deriveKey, wrapKey *)
(* and unwrapKey with supported algorithms, a key that lacks the required *)
(* usage makes the call fail with InvalidAccessError before any member of *)
(* an algorithm implementation is invoked.                                 *)
(***************************************************************************)
C1_UsageEnforcement ==
  (/\ last.op \in UsageOps
   /\ AlgorithmsSupported(last)
   /\ RequiredUsage(last.op) \notin UsageKey(last).usages)
  => /\ last.outcome = InvalidAccessError
     /\ last.calls = <<>>

(***************************************************************************)
(* C2 as stated: exportKey fails with InvalidAccessError for every key    *)
(* that is not extractable, whatever its algorithm and the format.         *)
(***************************************************************************)
C2_ExportRefusedAlways ==
  (last.op = "exportKey" /\ ~last.args.key.extractable)
  => last.outcome = InvalidAccessError

(***************************************************************************)
(* C2 amended: exportKey of a key that is not extractable invokes no      *)
(* implementation member and fails with InvalidAccessError when the key's *)
(* algorithm has an exportKey member, and with NotSupportedError when it  *)
(* has none (HKDF, PBKDF2), whatever the format.                           *)
(***************************************************************************)
C2_ExportRefused ==
  (last.op = "exportKey" /\ ~last.args.key.extractable)
  => /\ last.calls = <<>>
     /\ last.outcome = IF Supports(KeyAlg(last.args.key), "exportKey")
                       THEN InvalidAccessError ELSE NotSupportedError

C2_Witness ==
  /\ last.op = "exportKey"
  /\ ~last.args.key.extractable
  /\ last.args.key.algorithm.name = sAES_CTR
  /\ last.outcome = InvalidAccessError

(***************************************************************************)
(* Whether a value is the material of a key or an encoding of it: the raw *)
(* bytes, a JWK carrying them, or either of them wrapped.                  *)
(***************************************************************************)
IsExportOf(v, key) ==
  \/ v = key.keyMaterial
  \/ v.kind = "jwk" /\ v.k = encodeBase64Url(key.keyMaterial)

Reveals(v, key) ==
  \/ IsExportOf(v, key)
  \/ /\ v.kind = "ciphertext"
     /\ \/ IsExportOf(v.of, key)
        \/ v.of.kind = "json" /\ IsExportOf(v.of.of, key)

ExportingOps == {"exportKey", "wrapKey", "unsafeExportKey"}

(***************************************************************************)
(* C3 as stated: no function of the public exports, unsafeExportKey       *)
(* included, returns the material of a key that is not extractable.        *)
(***************************************************************************)
C3_NeverRevealed ==
  (/\ last.op \in ExportingOps
   /\ last.outcome = "ok"
   /\ Reveals(last.result, last.args.key))
  => last.args.key.extractable

(***************************************************************************)
(* C3 amended: the crypto.subtle operations exportKey and wrapKey fail    *)
(* and return nothing for a key that is not extractable, so that they     *)
(* return the material of a key, or an encoding of it, only when the key  *)
(* is extractable; the exported extension unsafeExportKey returns it      *)
(* whatever the extractable flag.                                          *)
(***************************************************************************)
C3_SubtleNeverReveals ==
  /\ (/\ last.op \in {"exportKey", "wrapKey"}
      /\ ~last.args.key.extractable)
     => /\ last.outcome # "ok"
        /\ last.result = Nil
  /\ (/\ last.op \in {"exportKey", "wrapKey"}
      /\ last.outcome = "ok")
     => Reveals(last.result, last.args.key)
  /\ (/\ last.op = "unsafeExportKey"
      /\ last.args.format \in {"raw", "jwk"}
      /\ Supports(KeyAlg(last.args.key), "exportKey"))
     => /\ last.outcome = "ok"
        /\ IsExportOf(last.result, last.args.key)

\* wrapKey refusing a key that is not extractable, asked by the holder of a
\* wrapping key of the right algorithm and usage.
C3_Witness ==
  /\ last.op = "wrapKey"
  /\ ~last.args.key.extractable
  /\ Supports(KeyAlg(last.args.key), "exportKey")
  /\ "wrapKey" \in last.args.key2.usages
  /\ ~NameMismatch(last)
  /\ ResolvedFor(last).err = ""
  /\ last.outcome = InvalidAccessError

(***************************************************************************)
(* C4 as stated: for encrypt, decrypt, sign, verify, wrapKey and          *)
(* unwrapKey, a key whose algorithm name differs from the name of the     *)
(* resolved implementation makes the call fail with InvalidAccessError    *)
(* without the implementation's operation being invoked.                   *)
(***************************************************************************)
C4_NameMismatchAlways ==
  NameMismatch(last)
  => /\ last.outcome = InvalidAccessError
     /\ last.calls = <<>>

(***************************************************************************)
(* C4 amended: the same, except that unwrapKey first resolves the         *)
(* importer of unwrappedKeyAlgorithm; when that resolution fails the call *)
(* fails with its error (NotSupportedError or SyntaxError) instead.  In   *)
(* every case no implementation member is invoked.                         *)
(***************************************************************************)
C4_NameMismatch ==
  NameMismatch(last)
  => /\ last.calls = <<>>
     /\ last.outcome =
          IF last.op = "unwrapKey" /\ getAlgorithm(last.args.alg2, "importKey").err # ""
          THEN getAlgorithm(last.args.alg2, "importKey").err
          ELSE InvalidAccessError

C4_Witness ==
  /\ NameMismatch(last)
  /\ last.op = "wrapKey"
  /\ "wrapKey" \in last.args.key2.usages
  /\ last.args.key.extractable
  /\ last.outcome = InvalidAccessError

(***************************************************************************)
(* C6: unwrapKey imports the unwrapped bytes with the importKey of the    *)
(* implementation resolved from unwrappedKeyAlgorithm: the returned key   *)
(* has the target algorithm's name, and the extractable flag and usages   *)
(* passed to unwrapKey.                                                    *)
(***************************************************************************)
C6_UnwrapImportsWithTarget ==
  (last.op \in UnwrapOps /\ last.outcome = "ok")
  => /\ last.result.algorithm.name = getAlgorithm(last.args.alg2, "importKey").impl.name
     /\ last.result.extractable = last.args.extractable
     /\ last.result.usages = last.args.usages
     /\ last.calls[Len(last.calls)].member = "importKey"
     /\ last.calls[Len(last.calls)].impl =
          getAlgorithm(last.args.alg2, "importKey").impl.name

(***************************************************************************)
(* deriveKey as the composition the contract names: resolve both          *)
(* algorithms, get the key length, derive the bits, import them.           *)
(***************************************************************************)
DeriveKeyByComposition(algorithm, baseKey, derivedKeyType, extractable, keyUsages) ==
  LET alg == getAlgorithm(algorithm, "deriveBits")
      keyAlg == getAlgorithm(derivedKeyType, "get key length")
  IN
  IF alg.err # "" THEN Fail(alg.err, <<>>)
  ELSE IF keyAlg.err # "" THEN Fail(keyAlg.err, <<>>)
  ELSE
    LET L == call_getKeyLength(keyAlg.impl, derivedKeyType)
        c1 == Calls(keyAlg.impl, "get key length", Nil)
    IN
    IF L.err # "" THEN Fail(L.err, c1)
    ELSE
      LET bits == call_deriveBits(alg.impl, algorithm, baseKey, L.val.n)
          c2 == c1 \o Calls(alg.impl, "deriveBits", Nil)
      IN
      IF bits.err # "" THEN Fail(bits.err, c2)
      ELSE
        LET key == call_importKey(keyAlg.impl, "raw", bits.val, derivedKeyType,
                                  extractable, keyUsages)
            c3 == c2 \o Calls(keyAlg.impl, "importKey", bits.val)
        IN  IF key.err # "" THEN Fail(key.err, c3) ELSE Done("ok", key.val, c3)

ComposedDeriveKey(l) ==
  DeriveKeyByComposition(l.args.alg, l.args.key, l.args.alg2, l.args.extractable,
                         l.args.usages)

SameAsComposition(l) ==
  /\ l.outcome = ComposedDeriveKey(l).outcome
  /\ l.result = ComposedDeriveKey(l).result
  /\ l.calls = ComposedDeriveKey(l).calls

DerivationNameMismatch(l) ==
  /\ getAlgorithm(l.args.alg, "deriveBits").err = ""
  /\ getAlgorithm(l.args.alg, "deriveBits").impl.name # l.args.key.algorithm.name

(***************************************************************************)
(* C7 as stated: on a base key holding usage deriveKey, deriveKey returns *)
(* what importKey('raw', deriveBits(algorithm, baseKey, L), ...) of the    *)
(* target algorithm returns, L being the target's 'get key length', with  *)
(* the steps in the order resolve both algorithms, get key length, usage  *)
(* check, deriveBits, import.                                              *)
(***************************************************************************)
C7_DeriveKeyIsCompositionAlways ==
  (last.op = "deriveKey" /\ "deriveKey" \in last.args.key.usages)
  => SameAsComposition(last)

(***************************************************************************)
(* C7 amended: the same when the resolved derivation algorithm has the    *)
(* name of the base key's algorithm; when the names differ, deriveKey     *)
(* fails with InvalidAccessError right after resolving the derivation     *)
(* algorithm, before the target algorithm is resolved and before any      *)
(* implementation member is invoked.                                       *)
(***************************************************************************)
C7_DeriveKeyIsComposition ==
  /\ (/\ last.op = "deriveKey"
      /\ "deriveKey" \in last.args.key.usages
      /\ ~DerivationNameMismatch(last))
     => SameAsComposition(last)
  /\ (last.op = "deriveKey" /\ DerivationNameMismatch(last))
     => /\ last.outcome = InvalidAccessError
        /\ last.calls = <<>>

C7_Witness ==
  /\ last.op = "deriveKey"
  /\ last.outcome = "ok"
  /\ last.result.algorithm.name = sAES_CTR
  /\ last.result.keyMaterial.kind = "derived"
  /\ Len(last.calls) = 3

(***************************************************************************)
(* The capability a wrap or unwrap algorithm offers, and the calls of a   *)
(* capability that a call of the dispatcher made.                          *)
(***************************************************************************)
IsRegisteredName(a) ==
  /\ a.t \in {"string", "object"}
  /\ \E i \in DOMAIN algorithms : toLowerCase(algorithms[i].name) = toLowerCase(a.name)

Capability(a, dedicated, fallback) ==
  IF dedicated \in Registered(a).members THEN dedicated ELSE fallback

HasCapability(a, dedicated, fallback) ==
  Capability(a, dedicated, fallback) \in Registered(a).members

IsWrapCall(c) == c.member \in {"wrapKey", "encrypt"}
IsUnwrapCall(c) == c.member \in {"unwrapKey", "decrypt"}

\* The bytes wrapKey hands to the capability: the export of the key, as the
\* JSON text when the format is 'jwk'.
ExportedBytes(format, key) ==
  LET exported == call_exportKey(Registered(KeyAlg(key)), format, key) IN
  IF exported.err # "" THEN exported
  ELSE IF format = "jwk" THEN Ok(JSONstringify(exported.val)) ELSE exported

\* wrapKey gets as far as wrapping.
ReachesWrap(l) ==
  /\ HasCapability(l.args.alg, "wrapKey", "encrypt")
  /\ l.args.key2.algorithm.name = Registered(l.args.alg).name
  /\ "wrapKey" \in l.args.key2.usages
  /\ Supports(KeyAlg(l.args.key), "exportKey")
  /\ l.args.key.extractable
  /\ ExportedBytes(l.args.format, l.args.key).err = ""

\* unwrapKey gets as far as unwrapping.
ReachesUnwrap(l) ==
  /\ HasCapability(l.args.alg, "unwrapKey", "decrypt")
  /\ l.args.key2.algorithm.name = Registered(l.args.alg).name
  /\ "unwrapKey" \in l.args.key2.usages
  /\ l.op = "unwrapKey" => getAlgorithm(l.args.alg2, "importKey").err = ""

(***************************************************************************)
(* C8: wrapKey with a registered wrap algorithm invokes the algorithm's   *)
(* wrapKey member when it has one, otherwise its encrypt member, and      *)
(* fails with NotSupportedError when it has neither; unwrapKey does the   *)
(* same with unwrapKey and decrypt.  A call invokes at most one of the    *)
(* two capabilities, and exactly one when it gets as far as wrapping; it  *)
(* is invoked on the exported bytes of the key (the JSON text for 'jwk'), *)
(* for unwrapKey on the wrapped bytes.                                     *)
(***************************************************************************)
C8_WrapCapability ==
  /\ (last.op = "wrapKey" /\ IsRegisteredName(last.args.alg))
     => /\ Len(SelectSeq(last.calls, IsWrapCall)) <= 1
        /\ ~HasCapability(last.args.alg, "wrapKey", "encrypt")
           => last.outcome = NotSupportedError /\ last.calls = <<>>
        /\ ReachesWrap(last)
           => SelectSeq(last.calls, IsWrapCall) =
                << [impl |-> Registered(last.args.alg).name,
                    member |-> Capability(last.args.alg, "wrapKey", "encrypt"),
                    data |-> ExportedBytes(last.args.format, last.args.key).val] >>
  /\ (last.op \in UnwrapOps /\ IsRegisteredName(last.args.alg))
     => /\ Len(SelectSeq(last.calls, IsUnwrapCall)) <= 1
        /\ ~HasCapability(last.args.alg, "unwrapKey", "decrypt")
           => last.outcome = NotSupportedError /\ last.calls = <<>>
        /\ ReachesUnwrap(last)
           => SelectSeq(last.calls, IsUnwrapCall) =
                << [impl |-> Registered(last.args.alg).name,
                    member |-> Capability(last.args.alg, "unwrapKey", "decrypt"),
                    data |-> last.args.data] >>

\* A key wrapped as JSON text by the encrypt member of AES-CTR.
C8_Witness ==
  /\ last.op = "wrapKey"
  /\ last.outcome = "ok"
  /\ last.args.format = "jwk"
  /\ last.calls[Len(last.calls)].member = "encrypt"
  /\ last.calls[Len(last.calls)].data.kind = "json"

(***************************************************************************)
(* Lookups in the registry: getAlgorithm(name, op) for the operations of  *)
(* the registry and a collection of strings: the registered names, the    *)
(* same in lower case and in other spellings, names of nothing, and names *)
(* of what every object inherits.                                          *)
(***************************************************************************)
sAesKwMixed == <<"A","e","s","-","K","w">>
sHmacMixed == <<"h","M","a","C">>
sRSA_OAEP == <<"R","S","A","-","O","A","E","P">>
sCONSTRUCTOR == <<"C","O","N","S","T","R","U","C","T","O","R">>
sEmpty == <<>>
sAES == <<"A","E","S">>

ProbeNames ==
  {algorithms[i].name : i \in DOMAIN algorithms}
    \cup {toLowerCase(algorithms[i].name) : i \in DOMAIN algorithms}
    \cup {sAesKwMixed, sHmacMixed, sRSA_OAEP, sECDH, sEmpty, sAES,
          sConstructor, sCONSTRUCTOR, sProto, sToString}

InitRegistry ==
  /\ keys = {}
  /\ last = Record("none", NoArgs, Done("ok", Nil, <<>>))
  /\ ctr = NoCtr
  /\ \E n \in ProbeNames, op \in registryOps :
       probe = [phase |-> "asked", name |-> n, op |-> op,
                result |-> [err |-> "", impl |-> undefined]]

Lookup ==
  /\ probe.phase = "asked"
  /\ probe' = [probe EXCEPT !.phase = "done",
                            !.result = getAlgorithm(AlgString(probe.name), probe.op)]
  /\ UNCHANGED <<keys, last, ctr>>

NextRegistry == Lookup

SpecRegistry == InitRegistry /\ [][NextRegistry]_vars

\* The registered algorithms of that name, ignoring case, with a callable
\* member op.
Implementing(name, op) ==
  {i \in DOMAIN algorithms :
     /\ toLowerCase(algorithms[i].name) = toLowerCase(name)
     /\ op \in algorithms[i].members}

(***************************************************************************)
(* C5: for every operation of the registry and every string, the lookup   *)
(* returns a registered algorithm exactly when one whose name equals the  *)
(* string ignoring case has a callable member of that operation, and then *)
(* returns that algorithm; for every other string it fails with           *)
(* NotSupportedError.                                                      *)
(***************************************************************************)
C5_RegistryLookup ==
  probe.phase = "done"
  => IF Implementing(probe.name, probe.op) # {}
     THEN /\ probe.result.err = ""
          /\ \E i \in Implementing(probe.name, probe.op) :
               probe.result.impl = algorithms[i]
     ELSE probe.result.err = NotSupportedError

(***************************************************************************)
(* AES-CTR with concrete counter blocks (lib/algorithms/aes.js).  A       *)
(* buffer is a sequence of bytes; a counter block is a sequence of 16     *)
(* integers in 0..255, most significant byte first.  A byte of plaintext  *)
(* is a symbol; the cipher of the provider combines it with the byte of   *)
(* keystream that the cipher name, the key and the counter block          *)
(* determine, and combining twice with the same byte of keystream cancels.*)
(***************************************************************************)
BlockSize == 16

\* 2 ** i.  The numbers of the code are doubles, exact up to 2 ** 127; the
\* model saturates at 2 ** SatBits, above every number of blocks it is
\* compared with.
SatBits == 20
Pow2(i) == IF i >= SatBits THEN 2^SatBits ELSE 2^i

Min(a, b) == IF a < b THEN a ELSE b

\* buffer.slice(start, end), with 0-based offsets clamped to the buffer.
slice(data, start, end) == SubSeq(data, start + 1, Min(end, Len(data)))

\* A byte of the keystream combined into a byte.
XorKeystream(b, id) ==
  [b EXCEPT !.ks = IF id \in @ THEN @ \ {id} ELSE @ \cup {id}]

\* The counter block of OpenSSL's CTR mode after j blocks: the whole block
\* counts as one big-endian number of 128 bits.
RECURSIVE AddBigEndian(_, _, _)
AddBigEndian(block, pos, carry) ==
  IF pos = 0 \/ carry = 0 THEN block
  ELSE AddBigEndian([block EXCEPT ![pos] = (@ + carry) % 256], pos - 1,
                    (block[pos] + carry) \div 256)

\* createCipheriv(cipher, secretKey, iv).update(data), and the same with
\* createDecipheriv: in CTR mode both combine the data with the keystream.
update(cipher, secretKey, iv, data) ==
  LET nBlocks == (Len(data) + BlockSize - 1) \div BlockSize
      counters == [j \in 0..(nBlocks - 1) |-> AddBigEndian(iv, BlockSize, j)]
  IN  [k \in 1..Len(data) |->
         XorKeystream(data[k],
                      [cipher |-> cipher, key |-> secretKey,
                       counter |-> counters[(k - 1) \div BlockSize],
                       offset |-> (k - 1) % BlockSize])]

\* (iv[15 - Math.floor(i / 8)] & (1 << (i % 8))) === 0
CounterBitIsZero(iv, i) == (iv[16 - (i \div 8)] \div 2^(i % 8)) % 2 = 0

\* The loop that counts the blocks before the counter overflows, from bit i
\* up to bit `stop`; it ends the call early when the data is over before
\* the overflow.
RECURSIVE countBits(_, _, _, _, _)
countBits(iv, stop, dataLength, i, nBlocksBeforeOverflow) ==
  IF i >= stop THEN [early |-> FALSE, n |-> nBlocksBeforeOverflow]
  ELSE IF CounterBitIsZero(iv, i)
  THEN LET n == nBlocksBeforeOverflow + Pow2(i) IN
       IF n * BlockSize >= dataLength THEN [early |-> TRUE, n |-> n]
       ELSE countBits(iv, stop, dataLength, i + 1, n)
  ELSE countBits(iv, stop, dataLength, i + 1, nBlocksBeforeOverflow)

\* The same loop over all the bits of the counter, one byte after the other.
RECURSIVE countBlocksBeforeOverflow(_, _, _, _, _)
countBlocksBeforeOverflow(iv, length, dataLength, i, nBlocksBeforeOverflow) ==
  IF i >= length THEN [early |-> FALSE, n |-> nBlocksBeforeOverflow]
  ELSE LET byte == countBits(iv, Min(i + 8, length), dataLength, i,
                             nBlocksBeforeOverflow)
       IN  IF byte.early THEN byte
           ELSE countBlocksBeforeOverflow(iv, length, dataLength, i + 8, byte.n)

\* overflowIV that also clears the bit above the counter.
overflowIV_clearAbove(iv, length) ==
  LET filled == [k \in 1..16 |->
                   IF length >= 8 /\ k >= 17 - (length \div 8) THEN 0 ELSE iv[k]]
      low == [filled EXCEPT ![16 - (length \div 8)] = @ - (@ % 2^(length % 8))]
      at == 16 - (length \div 8)
      bit == 2^(length % 8)
  IN  [low EXCEPT ![at] = IF (@ \div bit) % 2 = 1 THEN @ - bit ELSE @]

\* The counter block the data after an overflow starts with.
overflowIV(iv, length) ==
  LET filled == [k \in 1..16 |->
                   IF length >= 8 /\ k >= 17 - (length \div 8) THEN 0 ELSE iv[k]]
  IN  [filled EXCEPT ![16 - (length \div 8)] = @ - (@ % 2^(length % 8))]

\* The data after the overflow, one cycle of the counter at a time.
RECURSIVE cipherCycles(_, _, _, _, _, _)
cipherCycles(cipher, secretKey, iv, length, data, i) ==
  LET blocksPerCycle == Pow2(length)
      nBlocks == (Len(data) + BlockSize - 1) \div BlockSize
  IN  IF i >= nBlocks THEN <<>>
      ELSE update(cipher, secretKey, overflowIV(iv, length),
                  slice(data, BlockSize * i, BlockSize * (i + blocksPerCycle)))
             \o cipherCycles(cipher, secretKey, iv, length, data, i + blocksPerCycle)

\* _doCipher without the handling of the overflow.
doCipher_native(iv, length, data, cipher, secretKey) ==
  update(cipher, secretKey, iv, data)

\* AES_CTR._doCipher(iv, length, data, fn)
doCipher(iv, length, data, cipher, secretKey) ==
  IF length = 128 THEN update(cipher, secretKey, iv, data)
  ELSE
    LET count == countBlocksBeforeOverflow(iv, length, Len(data), 0, 1) IN
    IF count.early THEN update(cipher, secretKey, iv, data)
    ELSE update(cipher, secretKey, iv, slice(data, 0, count.n * BlockSize))
           \o cipherCycles(cipher, secretKey, iv, length, data, count.n)

\* toOctetEnforceRange(x) for a number x
toOctetEnforceRange(x) == IF x < 0 \/ x > 255 THEN Throw(TypeError) ELSE Ok(x)

cipherName(secretKey) == secretKey.symmetricKeySize * 8

\* AES_CTR.decrypt handing the data to the decipher of the provider as it is.
AES_CTR_decrypt_native(params, key, data) ==
  Ok(update(cipherName(key), key, params.counter, data))

\* AES_CTR.encrypt and AES_CTR.decrypt on bytes
AES_CTR_encrypt(params, key, data) ==
  LET length == toOctetEnforceRange(params.length) IN
  IF length.err # "" THEN length
  ELSE IF Len(params.counter) # 16 THEN Throw(OperationError)
  ELSE IF length.val = 0 \/ length.val > 128 THEN Throw(OperationError)
  ELSE Ok(doCipher(params.counter, length.val, data, cipherName(key), key))

AES_CTR_decrypt(params, key, data) ==
  LET length == toOctetEnforceRange(params.length) IN
  IF length.err # "" THEN length
  ELSE IF Len(params.counter) # 16 THEN Throw(OperationError)
  ELSE IF length.val = 0 \/ length.val > 128 THEN Throw(OperationError)
  ELSE Ok(doCipher(params.counter, length.val, data, cipherName(key), key))

(***************************************************************************)
(* Encrypting and decrypting with AES-CTR: counter blocks at and near the *)
(* overflow of counters of several widths, data of whole and partial      *)
(* blocks, plaintext of distinct bytes and plaintext repeating every 32   *)
(* bytes.                                                                  *)
(***************************************************************************)
Zeros(n) == [k \in 1..n |-> 0]
Ones(n) == [k \in 1..n |-> 255]

CounterBlocks ==
  { Zeros(16),
    Ones(16),
    Ones(15) \o <<254>>,
    Ones(14) \o <<255, 253>>,
    Zeros(14) \o <<1, 255>>,
    <<127>> \o Ones(15),
    <<33, 89, 229, 189, 65, 87, 145, 153, 14, 82, 181, 200, 37, 87, 41, 148>>,
    Zeros(15) }

CounterLengths == {0, 1, 2, 3, 7, 8, 9, 16, 64, 127, 128, 129, 256}

DataLengths ==
  {BlockSize * b + r : b \in 0..(MaxBlocks - 1), r \in {0, 5, BlockSize}}

Periods == {32, BlockSize * (MaxBlocks + 1)}

SecretKeys == {[symmetricKeySize |-> 16, id |-> 1], [symmetricKeySize |-> 32, id |-> 2]}

Plaintext(n, period) == [k \in 1..n |-> [p |-> (k - 1) % period, ks |-> {}]]

InitCtr ==
  /\ keys = {}
  /\ last = Record("none", NoArgs, Done("ok", Nil, <<>>))
  /\ probe = NoProbe
  /\ \E iv \in CounterBlocks, length \in CounterLengths, n \in DataLengths,
        period \in Periods, key \in SecretKeys :
       ctr = [phase |-> "plain",
              params |-> [counter |-> iv, length |-> length],
              key |-> key,
              data |-> Plaintext(n, period),
              out |-> Ok(<<>>),
              back |-> Ok(<<>>)]

CtrEncrypt ==
  /\ ctr.phase = "plain"
  /\ ctr' = [ctr EXCEPT !.phase = "encrypted",
                        !.out = AES_CTR_encrypt(ctr.params, ctr.key, ctr.data)]
  /\ UNCHANGED <<keys, last, probe>>

CtrDecrypt ==
  /\ ctr.phase = "encrypted"
  /\ ctr.out.err = ""
  /\ ctr' = [ctr EXCEPT !.phase = "decrypted",
                        !.back = AES_CTR_decrypt(ctr.params, ctr.key, ctr.out.val)]
  /\ UNCHANGED <<keys, last, probe>>

NextCtr == CtrEncrypt \/ CtrDecrypt

SpecCtr == InitCtr /\ [][NextCtr]_vars

(***************************************************************************)
(* The CTR mode of reference: block j is combined with the keystream of   *)
(* the counter block whose high 128 - L bits are those of the supplied    *)
(* counter and whose low L bits are (c + j) mod 2^L, c being the low L    *)
(* bits of the supplied counter.  Bit 0 is the least significant.          *)
(***************************************************************************)
BitsOf(block) ==
  [i \in 0..127 |-> (block[16 - (i \div 8)] \div 2^(i % 8)) % 2]

BlockOf(bits) ==
  [k \in 1..16 |->
     LET b == 8 * (16 - k) IN
     bits[b] + 2 * bits[b + 1] + 4 * bits[b + 2] + 8 * bits[b + 3]
       + 16 * bits[b + 4] + 32 * bits[b + 5] + 64 * bits[b + 6]
       + 128 * bits[b + 7]]

\* bits + rest * 2^i over the bits from i up to `stop`, and what is left to
\* carry into the bits above.
RECURSIVE AddBits(_, _, _, _)
AddBits(bits, stop, i, rest) ==
  IF i >= stop \/ rest = 0 THEN [bits |-> bits, rest |-> rest]
  ELSE AddBits([bits EXCEPT ![i] = (@ + rest) % 2], stop, i + 1,
               (bits[i] + rest) \div 2)

\* bits + rest * 2^i, confined to the bits below L: eight bits at a time.
RECURSIVE AddBelow(_, _, _, _)
AddBelow(bits, L, i, rest) ==
  IF i >= L \/ rest = 0 THEN bits
  ELSE LET sum == AddBits(bits, Min(i + 8, L), i, rest)
       IN  AddBelow(sum.bits, L, i + 8, sum.rest)

ReferenceCounter(block, L, j) == BlockOf(AddBelow(BitsOf(block), L, 0, j))

ReferenceCtr(params, key, data) ==
  LET nBlocks == (Len(data) + BlockSize - 1) \div BlockSize
      counters == [j \in 0..(nBlocks - 1) |->
                     ReferenceCounter(params.counter, params.length, j)]
  IN  [k \in 1..Len(data) |->
         [p |-> data[k].p,
          ks |-> {[cipher |-> key.symmetricKeySize * 8, key |-> key,
                   counter |-> counters[(k - 1) \div BlockSize],
                   offset |-> (k - 1) % BlockSize]}]]

CtrParamsValid(lo, hi) ==
  /\ ctr.phase \in {"encrypted", "decrypted"}
  /\ Len(ctr.params.counter) = 16
  /\ ctr.params.length \in lo..hi

(***************************************************************************)
(* C9: AES-CTR encrypt with a counter block of 16 bytes and a length L,   *)
(* 1 <= L <= 127, gives the output of the CTR mode of reference, whatever *)
(* the data.  With L = 1, two identical consecutive inputs of 32 bytes    *)
(* give two identical halves of 32 bytes of ciphertext.                    *)
(***************************************************************************)
C9_CtrMatchesReference ==
  CtrParamsValid(1, 127)
  => /\ ctr.out = Ok(ReferenceCtr(ctr.params, ctr.key, ctr.data))
     /\ (/\ ctr.params.length = 1
         /\ Len(ctr.data) = 64
         /\ SubSeq(ctr.data, 1, 32) = SubSeq(ctr.data, 33, 64))
        => SubSeq(ctr.out.val, 1, 32) = SubSeq(ctr.out.val, 33, 64)

\* Data that goes through the overflow of a 9 bit counter: the last bytes
\* are combined with the keystream of a counter block that OpenSSL's
\* counter would not have produced.
C9_Witness ==
  /\ CtrParamsValid(9, 9)
  /\ ctr.params.counter = Zeros(14) \o <<1, 255>>
  /\ Len(ctr.data) > 2 * BlockSize
  /\ ctr.out.err = ""
  /\ ctr.out.val # update(ctr.key.symmetricKeySize * 8, ctr.key, ctr.params.counter,
                          ctr.data)

(***************************************************************************)
(* C10: for every key, counter block of 16 bytes, length in 1..128 and    *)
(* data, the output of AES-CTR encrypt has the byte length of its input,  *)
(* and decrypt with the same parameters gives the input back.              *)
(***************************************************************************)
C10_CtrRoundTrip ==
  CtrParamsValid(1, 128)
  => /\ ctr.out.err = ""
     /\ Len(ctr.out.val) = Len(ctr.data)
     /\ ctr.phase = "decrypted" => ctr.back = Ok(ctr.data)

\* A round trip of data of a partial last block over several overflows of a
\* counter of one bit.
C10_Witness ==
  /\ CtrParamsValid(1, 1)
  /\ ctr.phase = "decrypted"
  /\ Len(ctr.data) > 4 * BlockSize
  /\ Len(ctr.data) % BlockSize # 0
  /\ ctr.back = Ok(ctr.data)
  /\ ctr.out.val # ctr.data

\* C14: whenever verify has reached the HMAC implementation with a signature
\* of bytes, it returns a boolean, true exactly when the signature is the
\* MAC of the data under the key.
C14_VerifyReturnsBoolean ==
  (last.op = "verify" /\ last.calls # <<>> /\ IsBytes(last.args.data2)) =>
    /\ last.outcome = "ok"
    /\ last.result = IF last.args.data2 = HMAC_sign(last.args.alg, last.args.key, last.args.data).val
                     THEN True ELSE False

\* ---------------------------------------------------------------------------
\* ASN.1 SEQUENCE of unsigned INTEGER codec (lib/util.js)
\* ---------------------------------------------------------------------------
\* Buffers are sequences of bytes 0..255; index i of the code is index i + 1
\* here.

\* Bounds of the codec specification: integers handed to one encoder, bytes
\* of a small integer, bytes after the length field of a crafted buffer, and
\* unsignedInteger calls on one decoder.
MaxInts == 1
MaxIntLen == 2
MaxBody == 4
MaxCalls == 2

tagInteger == 2
tagSequence == 48

\* buffer[i] for a numeric i: a byte, or undefined (HasByte is FALSE).
HasByte(buffer, i) == i >= 0 /\ i < Len(buffer)
ByteAt(buffer, i) == buffer[i + 1]

\* Buffer.prototype.slice(start, end): NaN counts as 0, a negative index
\* counts from the end, both are clamped to the buffer.
adjustOffset(offset, length) == IF offset < 0 THEN (IF offset + length > 0 THEN offset + length ELSE 0) ELSE Min(offset, length)
bufferSlice(buffer, start, end) == SubSeq(buffer, adjustOffset(start, Len(buffer)) + 1, adjustOffset(end, Len(buffer)))

\* Buffer.concat(list, totalLength): truncated or zero-filled to totalLength.
bufferConcat(flat, totalLength) == IF totalLength <= Len(flat) THEN SubSeq(flat, 1, totalLength) ELSE flat \o [i \in 1..(totalLength - Len(flat)) |-> 0]

\* (length << 8) | byte on 32-bit signed integers.
shiftOr(length, byte) == LET low == length % 16777216 IN IF low >= 8388608 THEN (low - 16777216) * 256 + byte ELSE low * 256 + byte

\* Asn1SequenceEncoder.encodeLength
writeUInt32BE(len) == << (len \div 16777216) % 256, (len \div 65536) % 256, (len \div 256) % 256, len % 256 >>
encodeLength(len) ==
  IF len < 128 THEN <<len>>
  ELSE LET buffer == <<0>> \o writeUInt32BE(len)
           offset == CHOOSE o \in 1..4 :
                       ByteAt(buffer, o) # 0 /\ \A p \in 1..(o - 1) : ByteAt(buffer, p) = 0
       IN  <<128 + (5 - offset)>> \o SubSeq(buffer, offset + 1, 5)

\* new Asn1SequenceEncoder()
NewEncoder == [length |-> 0, elements |-> <<>>]

\* The loop of Asn1SequenceEncoder.unsignedInteger: the number of leading
\* zero bytes that are followed by a byte (or nothing) with a clear MSB.
Skippable(integer, i) == HasByte(integer, i) /\ ByteAt(integer, i) = 0 /\ (~HasByte(integer, i + 1) \/ ByteAt(integer, i + 1) < 128)
leadingZeros(integer) == CHOOSE i \in 0..Len(integer) : ~Skippable(integer, i) /\ \A j \in 0..(i - 1) : Skippable(integer, j)

\* Asn1SequenceEncoder.unsignedInteger
Encoder_unsignedInteger(enc, integer) ==
  IF HasByte(integer, 0) /\ ByteAt(integer, 0) >= 128
  THEN LET len == encodeLength(Len(integer) + 1) IN
       [length |-> enc.length + 2 + Len(len) + Len(integer),
        elements |-> enc.elements \o <<tagInteger>> \o len \o <<0>> \o integer]
  ELSE LET i == leadingZeros(integer)
           len == encodeLength(Len(integer) - i) IN
       [length |-> enc.length + 1 + Len(len) + Len(integer) - i,
        elements |-> enc.elements \o <<tagInteger>> \o len
                       \o SubSeq(integer, i + 1, Len(integer))]

\* Asn1SequenceEncoder.end
Encoder_end(enc) ==
  LET len == encodeLength(enc.length) IN
  bufferConcat(<<tagSequence>> \o len \o enc.elements, 1 + Len(len) + enc.length)

\* A decoder: its buffer is kept beside it; offset is a number or NaN.
Decoder(offset, nan) == [offset |-> offset, nan |-> nan]

\* The long form of Asn1SequenceDecoder.decodeLength after i of the nBytes
\* bytes from offset, a missing byte counting as 0 in the bitwise or. The
\* bytes before the last four have been shifted out of the 32 bits.
RECURSIVE longForm(_, _, _, _)
longForm(buffer, offset, nBytes, i) ==
  IF i = 0 \/ i <= nBytes - 4 THEN 0
  ELSE shiftOr(longForm(buffer, offset, nBytes, i - 1),
               IF HasByte(buffer, offset + i - 1) THEN ByteAt(buffer, offset + i - 1) ELSE 0)

\* Asn1SequenceDecoder.decodeLength: the length (undef when the byte read is
\* missing) and the decoder after the reads.
decodeLength(buffer, dec) ==
  IF dec.nan \/ ~HasByte(buffer, dec.offset)
  THEN [undef |-> TRUE, length |-> 0,
        dec |-> IF dec.nan THEN dec ELSE Decoder(dec.offset + 1, FALSE)]
  ELSE LET length == ByteAt(buffer, dec.offset)
           offset == dec.offset + 1 IN
       IF length >= 128
       THEN LET nBytes == length - 128 IN
            [undef |-> FALSE, length |-> longForm(buffer, offset, nBytes, nBytes),
             dec |-> Decoder(offset + nBytes, FALSE)]
       ELSE [undef |-> FALSE, length |-> length, dec |-> Decoder(offset, FALSE)]

\* new Asn1SequenceDecoder(buffer)
NewDecoder(buffer) ==
  IF ~HasByte(buffer, 0) \/ ByteAt(buffer, 0) # tagSequence
  THEN [err |-> DataError, dec |-> Decoder(0, FALSE)]
  ELSE LET l == decodeLength(buffer, Decoder(1, FALSE)) IN
       IF l.undef \/ l.length # Len(buffer) - l.dec.offset
       THEN [err |-> DataError, dec |-> l.dec]
       ELSE [err |-> "", dec |-> l.dec]

\* Asn1SequenceDecoder.unsignedInteger without the removal of a leading zero.
Decoder_unsignedInteger_keepZero(buffer, dec) ==
  IF dec.nan \/ ~HasByte(buffer, dec.offset) \/ ByteAt(buffer, dec.offset) # tagInteger
  THEN [err |-> DataError, result |-> <<>>,
        dec |-> IF dec.nan THEN dec ELSE Decoder(dec.offset + 1, FALSE)]
  ELSE LET l == decodeLength(buffer, Decoder(dec.offset + 1, FALSE))
           offset == l.dec.offset IN
       IF l.undef
       THEN [err |-> "", result |-> bufferSlice(buffer, offset, 0),
             dec |-> Decoder(0, TRUE)]
       ELSE [err |-> "", result |-> bufferSlice(buffer, offset, offset + l.length),
             dec |-> Decoder(offset + l.length, FALSE)]

\* Asn1SequenceDecoder.unsignedInteger: the bytes read (or the error) and the
\* decoder afterwards; the offset has moved past the tag even when it throws.
Decoder_unsignedInteger(buffer, dec) ==
  IF dec.nan \/ ~HasByte(buffer, dec.offset) \/ ByteAt(buffer, dec.offset) # tagInteger
  THEN [err |-> DataError, result |-> <<>>,
        dec |-> IF dec.nan THEN dec ELSE Decoder(dec.offset + 1, FALSE)]
  ELSE LET l == decodeLength(buffer, Decoder(dec.offset + 1, FALSE))
           zero == HasByte(buffer, l.dec.offset) /\ ByteAt(buffer, l.dec.offset) = 0
           offset == IF zero THEN l.dec.offset + 1 ELSE l.dec.offset
           length == IF zero THEN l.length - 1 ELSE l.length IN
       IF l.undef
       THEN [err |-> "", result |-> bufferSlice(buffer, offset, 0),
             dec |-> Decoder(0, TRUE)]
       ELSE [err |-> "", result |-> bufferSlice(buffer, offset, offset + length),
             dec |-> Decoder(offset + length, FALSE)]

\* Asn1SequenceDecoder.end
Decoder_end(buffer, dec) == IF dec.nan \/ dec.offset # Len(buffer) THEN DataError ELSE ""

\* Integers handed to the encoder: every byte string of at most MaxIntLen
\* bytes over bytes at the edges of the sign bit, and, as the first integer
\* of a sequence, long ones around the short/long length forms and beyond
\* 1900 bytes.
EdgeBytes == {0, 1, 128}
BytesUpTo(alphabet, n) == UNION { [1..k -> alphabet] : k \in 0..n }
LongInt(first, n) == [i \in 1..n |-> IF i = 1 THEN first ELSE (i * 37) % 256]
LongInts == { LongInt(f, n) : f \in {0, 1, 255}, n \in {127, 128, 2000} }
SmallInts == BytesUpTo(EdgeBytes, MaxIntLen)
UnsignedIntegers(first) == IF first THEN SmallInts \cup LongInts ELSE SmallInts

\* Buffers handed straight to the decoder: a tag, a length field, and at most
\* MaxBody bytes after it.
Tags == {<<>>, <<tagSequence>>, <<49>>}
LengthFields == { <<>>, <<0>>, <<1>>, <<2>>, <<3>>, <<4>>, <<5>>, <<16>>, <<128>>, <<129>>, <<129, 3>>, <<130, 0, 3>>, <<132, 255, 255, 255, 255>>, <<133, 1, 0, 0, 0, 0>>, <<133, 1, 0, 0, 0, 3>> }
BodyBytes == {0, 1, 2, 133}
CraftedBuffers == { t \o l \o b : t \in Tags, l \in LengthFields, b \in BytesUpTo(BodyBytes, MaxBody) }

\* The codec specification: one encoder is fed integers and ended, and one
\* decoder is constructed on the encoded buffer or on a crafted one, asked
\* for integers and ended.
Asn1State(stage, ints, enc, buf, dec, out, err) == [phase |-> "asn1", crafted |-> FALSE, stage |-> stage, ints |-> ints, enc |-> enc, buf |-> buf, dec |-> dec, out |-> out, err |-> err]

InitAsn1 ==
  /\ keys = {}
  /\ last = Record("none", NoArgs, Done("ok", Nil, <<>>))
  /\ ctr = NoCtr
  /\ probe = Asn1State("encoding", <<>>, NewEncoder, <<>>, Decoder(0, FALSE), <<>>, "")

EncodeUnsignedInteger ==
  /\ probe.phase = "asn1" /\ probe.stage = "encoding"
  /\ Len(probe.ints) < MaxInts
  /\ \E b \in UnsignedIntegers(probe.ints = <<>>) :
       probe' = [probe EXCEPT !.ints = Append(@, b),
                              !.enc = Encoder_unsignedInteger(@, b)]
  /\ UNCHANGED <<keys, last, ctr>>

EncodeEnd ==
  /\ probe.phase = "asn1" /\ probe.stage = "encoding"
  /\ probe' = [probe EXCEPT !.stage = "encoded", !.buf = Encoder_end(probe.enc)]
  /\ UNCHANGED <<keys, last, ctr>>

Construct(stage, buffer) ==
  LET r == NewDecoder(buffer) IN
  /\ probe' = [probe EXCEPT !.stage = IF r.err = "" THEN stage ELSE "constructor threw",
                            !.crafted = (stage = "decoding crafted"),
                            !.buf = buffer, !.dec = r.dec, !.err = r.err]
  /\ UNCHANGED <<keys, last, ctr>>

DecodeEncoded ==
  /\ probe.phase = "asn1" /\ probe.stage = "encoded"
  /\ Construct("decoding", probe.buf)

DecodeCrafted ==
  /\ probe.phase = "asn1" /\ probe.stage = "encoding" /\ probe.ints = <<>>
  /\ \E buffer \in CraftedBuffers : Construct("decoding crafted", buffer)

DecodeUnsignedInteger ==
  /\ probe.phase = "asn1" /\ probe.stage \in {"decoding", "decoding crafted"}
  /\ Len(probe.out) < MaxCalls
  /\ LET r == Decoder_unsignedInteger(probe.buf, probe.dec) IN
       probe' = [probe EXCEPT !.stage = IF r.err = "" THEN @ ELSE "unsignedInteger threw",
                              !.dec = r.dec, !.err = r.err,
                              !.out = IF r.err = "" THEN Append(@, r.result) ELSE @]
  /\ UNCHANGED <<keys, last, ctr>>

DecodeEnd ==
  /\ probe.phase = "asn1" /\ probe.stage \in {"decoding", "decoding crafted"}
  /\ LET e == Decoder_end(probe.buf, probe.dec) IN
       probe' = [probe EXCEPT !.stage = IF e = "" THEN "ended" ELSE "end threw",
                              !.err = e]
  /\ UNCHANGED <<keys, last, ctr>>

NextAsn1 ==
  \/ EncodeUnsignedInteger
  \/ EncodeEnd
  \/ DecodeEncoded
  \/ DecodeCrafted
  \/ DecodeUnsignedInteger
  \/ DecodeEnd

SpecAsn1 == InitAsn1 /\ [][NextAsn1]_vars

\* The integer a byte string denotes, as bytes: the string without its
\* leading zero bytes.
SignificantBytes(b) == SubSeq(b, Cardinality({ i \in 1..Len(b) : \A j \in 1..i : b[j] = 0 }) + 1, Len(b))

Encoded == probe.phase = "asn1" /\ ~probe.crafted

\* C11 as stated: whenever the integers given to an encoder have been encoded
\* and decoded again without error, the decoder returned exactly the bytes
\* given.
C11_RoundTripExact == (Encoded /\ probe.stage = "ended") => probe.out = probe.ints

\* C11: decoding what the encoder produced raises no error (the constructor
\* never throws, unsignedInteger throws only when asked for more integers
\* than were encoded, end throws only when fewer were read), and the j-th
\* integer read is the j-th integer given without its leading zero bytes, so
\* exactly the bytes given when their first byte is not zero.
C11_RoundTrip ==
  Encoded =>
    /\ probe.stage # "constructor threw"
    /\ probe.stage = "unsignedInteger threw" => Len(probe.out) = Len(probe.ints)
    /\ probe.stage = "end threw" => Len(probe.out) < Len(probe.ints)
    /\ Len(probe.out) <= Len(probe.ints)
    /\ \A j \in 1..Len(probe.out) :
         /\ probe.out[j] = SignificantBytes(probe.ints[j])
         /\ (probe.ints[j] = <<>> \/ probe.ints[j][1] # 0) => probe.out[j] = probe.ints[j]

\* An integer of more than 1900 bytes whose first byte has the MSB set has
\* come back unchanged.
C11_Witness ==
  /\ Encoded /\ probe.stage = "ended"
  /\ Len(probe.ints) = 1 /\ probe.out = probe.ints
  /\ Len(probe.ints[1]) > 1900 /\ probe.ints[1][1] >= 128

\* The length a DER length field at index `at` declares, read without a
\* width: ok is FALSE when bytes of the field are missing, size is the
\* number of bytes of the field, and big says that the value exceeds every
\* buffer length.
DeclaredLength(buffer, at) ==
  IF ~HasByte(buffer, at) THEN [ok |-> FALSE, size |-> 0, big |-> FALSE, value |-> 0]
  ELSE IF ByteAt(buffer, at) < 128
  THEN [ok |-> TRUE, size |-> 1, big |-> FALSE, value |-> ByteAt(buffer, at)]
  ELSE LET n == ByteAt(buffer, at) - 128
           sig == SignificantBytes(SubSeq(buffer, at + 2, at + 1 + n)) IN
       IF at + n >= Len(buffer) THEN [ok |-> FALSE, size |-> 0, big |-> FALSE, value |-> 0]
       ELSE [ok |-> TRUE, size |-> 1 + n, big |-> Len(sig) > 2,
             value |-> IF Len(sig) = 0 THEN 0
                       ELSE IF Len(sig) = 1 THEN sig[1]
                       ELSE sig[1] * 256 + sig[2]]

\* The sequence length a buffer declares is the number of bytes after the
\* length field.
DeclaresItsLength(buffer) ==
  LET d == DeclaredLength(buffer, 1) IN
  d.ok /\ ~d.big /\ d.value = Len(buffer) - 1 - d.size

\* k INTEGER elements starting at index `at` end exactly at the end of the
\* buffer.
RECURSIVE Tiles(_, _, _)
Tiles(buffer, at, k) ==
  IF k = 0 THEN at = Len(buffer)
  ELSE /\ HasByte(buffer, at) /\ ByteAt(buffer, at) = tagInteger
       /\ LET d == DeclaredLength(buffer, at + 1) IN
            /\ d.ok /\ ~d.big
            /\ at + 1 + d.size + d.value <= Len(buffer)
            /\ Tiles(buffer, at + 1 + d.size + d.value, k - 1)

\* C12: a decoder exists only for a buffer that starts with the SEQUENCE tag
\* and declares exactly the number of bytes that follow its length field,
\* and end() succeeds only when the integers read tile the sequence.
C12_DecoderRejects ==
  (probe.phase = "asn1" /\ probe.stage \in {"decoding", "decoding crafted", "unsignedInteger threw", "end threw", "ended"}) =>
    /\ HasByte(probe.buf, 0) /\ ByteAt(probe.buf, 0) = tagSequence
    /\ DeclaresItsLength(probe.buf)
    /\ probe.stage = "ended" =>
         Tiles(probe.buf, 1 + DeclaredLength(probe.buf, 1).size, Len(probe.out))

\* ---------------------------------------------------------------------------
\* ECDSA verify (lib/algorithms/ecdsa.js, both revisions in the tree)
\* ---------------------------------------------------------------------------
\* curveInfo[namedCurve].basePointOrderSize (lib/curves.js); 0 stands for a
\* curve the table does not have.
Curves == {"P-256", "P-384", "P-521", "K-256"}
curveInfo(namedCurve) == CASE namedCurve = "P-256" -> 32 [] namedCurve = "P-384" -> 48 [] namedCurve = "P-521" -> 66 [] namedCurve = "K-256" -> 32 [] OTHER -> 0

\* curveBasePointOrderSizes of the earlier revision, without K-256.
curveBasePointOrderSizes(namedCurve) == CASE namedCurve = "P-256" -> 32 [] namedCurve = "P-384" -> 48 [] namedCurve = "P-521" -> 66 [] OTHER -> 0

\* opensslHashFunctionName (lib/util.js): the lookup of 'get hash function'.
opensslHashFunctionName(hash) ==
  LET r == getAlgorithm(hash, "get hash function") IN
  IF r.err # "" THEN Throw(r.err) ELSE Ok(r.impl.name)

\* The DER SEQUENCE of r and s.
signatureDER(signature, n) == Encoder_end(Encoder_unsignedInteger(Encoder_unsignedInteger(NewEncoder, SubSeq(signature, 1, n)), SubSeq(signature, n + 1, Len(signature))))

\* convertSignatureToASN1: undefined for a signature that is not 2n bytes.
convertSignatureToASN1(signature, n) ==
  IF Len(signature) # 2 * n THEN [defined |-> FALSE, der |-> <<>>]
  ELSE [defined |-> TRUE, der |-> signatureDER(signature, n)]

\* A signature argument: bytes, or a value that is not a BufferSource.
SigBytes(bytes) == [kind |-> "data", bytes |-> bytes]
NotABuffer == [kind |-> "number", bytes |-> <<>>]

\* ECDSA.verify; `valid` is the answer of crypto.verify for the DER signature.
ECDSA_verify(algorithm, key, signature, data, valid) ==
  IF key.type # "public" THEN Throw(InvalidAccessError)
  ELSE IF ~IsBytes(signature) THEN Throw(TypeError)
  ELSE LET n == curveInfo(key.namedCurve)
           sig == convertSignatureToASN1(signature.bytes, n) IN
       IF ~sig.defined THEN Ok(False)
       ELSE LET hashFn == opensslHashFunctionName(algorithm.hash) IN
            IF hashFn.err # "" THEN Throw(hashFn.err)
            ELSE Ok(IF valid THEN True ELSE False)

\* ECDSA.verify of lib/algorithms/ecdsa.js, whose convertSignatureToASN1
\* throws for a signature that is not 2n bytes (never 2n bytes for a curve
\* without a size).
ECDSA_verify_ecdsa_js(algorithm, key, signature, data, valid) ==
  IF key.type # "public" THEN Throw(InvalidAccessError)
  ELSE IF ~IsBytes(signature) THEN Throw(TypeError)
  ELSE LET n == curveBasePointOrderSizes(key.namedCurve) IN
       IF n = 0 \/ Len(signature.bytes) # 2 * n THEN Throw(OperationError)
       ELSE LET hashFn == opensslHashFunctionName(algorithm.hash) IN
            IF hashFn.err # "" THEN Throw(hashFn.err)
            ELSE Ok(IF valid THEN True ELSE False)

\* Signatures: bytes of one value, of lengths around 2n for every curve.
SigLengths == {0, 1, 32, 63, 64, 65, 95, 96, 97, 131, 132, 133}
SigFill == {0, 1, 255}
Signatures == { SigBytes([i \in 1..l |-> f]) : l \in SigLengths, f \in SigFill } \cup {NotABuffer}
HashArgs == {AlgString(sSHA_256), AlgString(sAES_CTR), AlgUndefined}

InitEcdsa ==
  /\ keys = {}
  /\ last = Record("none", NoArgs, Done("ok", Nil, <<>>))
  /\ ctr = NoCtr
  /\ \E c \in Curves, t \in {"public", "private"}, sig \in Signatures, h \in HashArgs, v \in BOOLEAN :
       probe = [phase |-> "ecdsa", rev |-> "", key |-> [type |-> t, namedCurve |-> c],
                signature |-> sig, hash |-> h, valid |-> v, result |-> Throw("")]

EcdsaVerify ==
  /\ probe.phase = "ecdsa"
  /\ probe' = [probe EXCEPT !.phase = "ecdsa done", !.rev = "idl",
                            !.result = ECDSA_verify([hash |-> probe.hash], probe.key, probe.signature, Nil, probe.valid)]
  /\ UNCHANGED <<keys, last, ctr>>

EcdsaVerifyEcdsaJs ==
  /\ probe.phase = "ecdsa" /\ probe.key.namedCurve # "K-256"
  /\ probe' = [probe EXCEPT !.phase = "ecdsa done", !.rev = "ecdsa.js",
                            !.result = ECDSA_verify_ecdsa_js([hash |-> probe.hash], probe.key, probe.signature, Nil, probe.valid)]
  /\ UNCHANGED <<keys, last, ctr>>

NextEcdsa == EcdsaVerify \/ EcdsaVerifyEcdsaJs

SpecEcdsa == InitEcdsa /\ [][NextEcdsa]_vars

\* C13: verify with a public key and a signature of bytes whose length is not
\* twice the order size of the key's curve returns false, and whatever verify
\* returns for a public key is a boolean.
C13_WrongLengthIsFalse ==
  (probe.phase = "ecdsa done" /\ probe.key.type = "public" /\ IsBytes(probe.signature)) =>
    /\ Len(probe.signature.bytes) # 2 * curveInfo(probe.key.namedCurve) => probe.result = Ok(False)
    /\ probe.result.err = "" => probe.result.val \in {True, False}

\* ---------------------------------------------------------------------------
\* Key derivation keys: HKDF and PBKDF2 through the dispatcher
\* ---------------------------------------------------------------------------
\* The calls of this specification: importKey and deriveBits with either key
\* derivation algorithm, and what it takes to unwrap a key as one: an AES-KW
\* wrapping key, an extractable AES-CTR key, wrapKey and unwrapKey.
KdfAlgArgs == {inHKDF, AlgString(toLowerCase(sPBKDF2))}
KdfFormats == {"raw", "jwk"}
KdfUsages == { {}, {"deriveBits"}, {"deriveKey", "deriveBits"}, {"deriveBits", "encrypt"} }
KdfLengths == {NullLength, 0, 7, 8, 100, 128}
KdfData == Data(1, 16)

IsKdfKey(k) == k.kind = "key" /\ k.algorithm.name \in {sHKDF, sPBKDF2}

InitKdf ==
  /\ keys = {}
  /\ last = Record("none", NoArgs, Done("ok", Nil, <<>>))
  /\ ctr = NoCtr
  /\ probe = [phase |-> "kdf"]

KdfImportKey ==
  /\ probe.phase = "kdf"
  /\ \E f \in KdfFormats, a \in KdfAlgArgs, e \in BOOLEAN, u \in KdfUsages :
       ReturnsKey("importKey",
                  [NoArgs EXCEPT !.format = f, !.alg = a, !.data = KdfData,
                                 !.extractable = e, !.usages = u],
                  importKey(f, KdfData, a, e, u))

KdfGenerateKey ==
  /\ probe.phase = "kdf"
  /\ \E p \in { [a |-> inKW, e |-> FALSE, u |-> {"wrapKey", "unwrapKey"}],
                [a |-> inCTR, e |-> TRUE, u |-> {"encrypt", "decrypt"}] } :
       ReturnsKey("generateKey",
                  [NoArgs EXCEPT !.alg = p.a, !.extractable = p.e, !.usages = p.u],
                  generateKey(p.a, p.e, p.u, 1))

KdfWrapKey ==
  /\ probe.phase = "kdf"
  /\ \E k \in keys, w \in keys :
       Returns("wrapKey",
               [NoArgs EXCEPT !.format = "raw", !.key = k, !.key2 = w, !.alg = inKW],
               wrapKey("raw", k, w, inKW))

KdfUnwrapKey ==
  /\ probe.phase = "kdf"
  /\ last.op = "wrapKey" /\ last.outcome = "ok"
  /\ \E f \in KdfFormats, w \in keys, t \in KdfAlgArgs, e \in BOOLEAN, u \in KdfUsages :
       Returns("unwrapKey",
               [NoArgs EXCEPT !.format = f, !.data = last.result, !.key2 = w,
                              !.alg = inKW, !.alg2 = t, !.extractable = e, !.usages = u],
               unwrapKey(f, last.result, w, inKW, t, e, u))

KdfDeriveBits ==
  /\ probe.phase = "kdf"
  /\ \E a \in KdfAlgArgs, k \in keys, n \in KdfLengths :
       Returns("deriveBits", [NoArgs EXCEPT !.alg = a, !.key = k, !.length = n],
               deriveBits(a, k, n))

NextKdf ==
  \/ KdfImportKey
  \/ KdfGenerateKey
  \/ KdfWrapKey
  \/ KdfUnwrapKey
  \/ KdfDeriveBits

SpecKdf == InitKdf /\ [][NextKdf]_vars

KdfKeyUsages == {"deriveKey", "deriveBits"}

\* The keys at hand: those kept and the one the last call returned.
KeysAtHand == keys \cup (IF last.outcome = "ok" /\ last.result.kind = "key" THEN {last.result} ELSE {})

\* importKey was called with an algorithm that names HKDF or PBKDF2.
KdfImport == last.op = "importKey" /\ toLowerCase(last.args.alg.name) \in {toLowerCase(sHKDF), toLowerCase(sPBKDF2)}

\* C15 as stated: importKey for HKDF or PBKDF2 fails with SyntaxError whenever
\* extractable is not false or a usage other than deriveKey and deriveBits is
\* requested, and with NotSupportedError whenever the format is not raw.
C15_ImportErrorsAsStated ==
  KdfImport =>
    /\ (last.args.extractable # FALSE \/ ~(last.args.usages \subseteq KdfKeyUsages)) => last.outcome = SyntaxError
    /\ last.args.format # "raw" => last.outcome = NotSupportedError

\* C15: every HKDF or PBKDF2 key, imported or unwrapped, is a secret key that
\* is not extractable and has usages among deriveKey and deriveBits; importKey
\* for these algorithms fails with NotSupportedError when the format is not
\* raw, and for the raw format with SyntaxError when extractable is not false
\* or a usage outside that set is requested, and succeeds otherwise.
C15_KdfKeys ==
  /\ \A k \in KeysAtHand :
       IsKdfKey(k) => k.type = "secret" /\ k.extractable = FALSE /\ k.usages \subseteq KdfKeyUsages
  /\ KdfImport =>
       /\ last.args.format # "raw" => last.outcome = NotSupportedError
       /\ (last.args.format = "raw" /\ (last.args.extractable # FALSE \/ ~(last.args.usages \subseteq KdfKeyUsages))) => last.outcome = SyntaxError
       /\ (last.args.format = "raw" /\ last.args.extractable = FALSE /\ last.args.usages \subseteq KdfKeyUsages) => (last.outcome = "ok" /\ IsKdfKey(last.result))

\* A key was unwrapped as a PBKDF2 key with both derivation usages.
C15_Witness ==
  /\ last.op = "unwrapKey" /\ last.outcome = "ok"
  /\ IsKdfKey(last.result) /\ last.result.algorithm.name = sPBKDF2
  /\ last.result.usages = KdfKeyUsages

\* C16: whenever deriveBits has reached the HKDF or PBKDF2 implementation, it
\* fails with OperationError for a null length and for a length that is not
\* a multiple of 8, and returns length / 8 bytes otherwise.
C16_DeriveBitsLength ==
  (last.op = "deriveBits" /\ last.calls # <<>>) =>
    IF last.args.length = NullLength \/ last.args.length % 8 # 0
    THEN last.outcome = OperationError
    ELSE last.outcome = "ok" /\ last.result.len * 8 = last.args.length

\* ---------------------------------------------------------------------------
\* The CryptoKey object and its getters (lib/key.js)
\* ---------------------------------------------------------------------------
\* A key object holds its type and extractable flag by value, a reference to
\* the algorithm descriptor object it was given, and a Set built from the
\* usages array it was given. The descriptor is the one object `algorithm`
\* of the state; arrays are sequences, and a Set is the sequence of its
\* elements in insertion order.

\* Bound: the length of a usages array.
MaxUsages == 2

Range(seq) == { seq[i] : i \in 1..Len(seq) }

\* new Set(usages)
RECURSIVE NewSet(_)
NewSet(usages) ==
  IF usages = <<>> THEN <<>>
  ELSE LET front == NewSet(SubSeq(usages, 1, Len(usages) - 1))
           elem == usages[Len(usages)] IN
       IF elem \in Range(front) THEN front ELSE Append(front, elem)

\* new CryptoKey(type, algorithm, extractable, usages, keyMaterial), with the
\* descriptor held by reference.
NewCryptoKey(type, extractable, usages, keyMaterial) == [kType |-> type, kExtractable |-> extractable, kUsages |-> NewSet(usages), kKeyMaterial |-> keyMaterial]

\* The getters: algorithm returns the descriptor object itself, usages a new
\* array of the elements of the Set.
get_type(key) == key.kType
get_extractable(key) == key.kExtractable
get_algorithm(key, heapAlgorithm) == heapAlgorithm
get_usages(key) == key.kUsages

\* What the four getters show.
Observed(key, heapAlgorithm) == [type |-> get_type(key), extractable |-> get_extractable(key), algorithm |-> get_algorithm(key, heapAlgorithm), usages |-> get_usages(key)]

UsageTokens == {"sign", "verify"}
UsageArrays == UNION { [1..n -> UsageTokens] : n \in 0..MaxUsages }
Descriptors == { [name |-> sHMAC, length |-> 256], [name |-> sAES_CTR, length |-> 128] }

\* The state after some operation created a key for the caller: the caller
\* still has the usages array it passed, and holds nothing the getters
\* returned.
InitKey ==
  /\ keys = {}
  /\ last = Record("none", NoArgs, Done("ok", Nil, <<>>))
  /\ ctr = NoCtr
  /\ \E t \in {"secret", "public"}, e \in BOOLEAN, a \in Descriptors, u \in UsageArrays :
       probe = [phase |-> "key",
                key |-> NewCryptoKey(t, e, u, Data(1, 16)),
                algorithm |-> a,
                created |-> Observed(NewCryptoKey(t, e, u, Data(1, 16)), a),
                usagesArgument |-> u,
                holdsAlgorithm |-> FALSE,
                holdsUsages |-> FALSE, returnedUsages |-> <<>>,
                checked |-> ""]

\* The caller reads key.algorithm and keeps the object.
KeyGetAlgorithm ==
  /\ probe.phase = "key" /\ ~probe.holdsAlgorithm
  /\ probe' = [probe EXCEPT !.holdsAlgorithm = TRUE]
  /\ UNCHANGED <<keys, last, ctr>>

\* The caller reads key.usages and keeps the array.
KeyGetUsages ==
  /\ probe.phase = "key" /\ ~probe.holdsUsages
  /\ probe' = [probe EXCEPT !.holdsUsages = TRUE, !.returnedUsages = get_usages(probe.key)]
  /\ UNCHANGED <<keys, last, ctr>>

\* The caller assigns to a field of the object key.algorithm returned.
KeyMutateReturnedAlgorithm ==
  /\ probe.phase = "key" /\ probe.holdsAlgorithm
  /\ \E a \in Descriptors : probe' = [probe EXCEPT !.algorithm = a]
  /\ UNCHANGED <<keys, last, ctr>>

\* The caller pushes onto the array key.usages returned.
KeyMutateReturnedUsages ==
  /\ probe.phase = "key" /\ probe.holdsUsages /\ Len(probe.returnedUsages) <= MaxUsages
  /\ probe' = [probe EXCEPT !.returnedUsages = Append(@, "encrypt")]
  /\ UNCHANGED <<keys, last, ctr>>

\* The caller pushes onto the usages array it passed at creation.
KeyMutateUsagesArgument ==
  /\ probe.phase = "key" /\ Len(probe.usagesArgument) <= MaxUsages
  /\ probe' = [probe EXCEPT !.usagesArgument = Append(@, "encrypt")]
  /\ UNCHANGED <<keys, last, ctr>>

\* An operation uses the key: requireKeyUsage(key, usage).
KeyRequireUsage ==
  /\ probe.phase = "key"
  /\ \E usage \in UsageTokens \cup {"encrypt"} :
       probe' = [probe EXCEPT !.checked = IF usage \in Range(probe.key.kUsages)
                                           THEN usage ELSE InvalidAccessError]
  /\ UNCHANGED <<keys, last, ctr>>

NextKey ==
  \/ KeyGetAlgorithm
  \/ KeyGetUsages
  \/ KeyMutateReturnedAlgorithm
  \/ KeyMutateReturnedUsages
  \/ KeyMutateUsagesArgument
  \/ KeyRequireUsage

SpecKey == InitKey /\ [][NextKey]_vars

\* C17: the getters of a key show what they showed at construction, whatever
\* the caller did to the values they returned or to the usages array it
\* passed, and the usages shown hold each token once.
C17_KeyImmutable ==
  probe.phase = "key" =>
    /\ Observed(probe.key, probe.algorithm) = probe.created
    /\ \A i, j \in 1..Len(get_usages(probe.key)) :
         get_usages(probe.key)[i] = get_usages(probe.key)[j] => i = j

\* ---------------------------------------------------------------------------
\* Concurrent calls on one key, and the state the calls share
\* ---------------------------------------------------------------------------
\* Bound: the number of calls in flight on the shared key.
MaxPending == 2

\* jwkHashMapping of RSASSA_PKCS1 and its inverse (lib/algorithms/rsa.js).
jwkHashMapping == [a \in {"RS1", "RS256", "RS384", "RS512"} |-> CASE a = "RS1" -> "SHA-1" [] a = "RS256" -> "SHA-256" [] a = "RS384" -> "SHA-384" [] a = "RS512" -> "SHA-512"]
Inverse(table) == [v \in { table[k] : k \in DOMAIN table } |-> CHOOSE k \in DOMAIN table : table[k] = v]

\* A mapping table object: its string-keyed entries and what it holds under
\* the symbol kInverted (cached is FALSE while that is undefined).
TableObject(entries, cached, inverted) == [entries |-> entries, cached |-> cached, inverted |-> inverted]
FreshTable == TableObject(jwkHashMapping, FALSE, Inverse(jwkHashMapping))

\* swapKeysAndValues that swaps the entries of the table itself.
swapKeysAndValues_inPlace(obj) ==
  IF obj.cached THEN [result |-> obj.inverted, obj |-> obj]
  ELSE [result |-> Inverse(obj.entries),
        obj |-> TableObject(Inverse(obj.entries), TRUE, Inverse(obj.entries))]

\* swapKeysAndValues: the inverse of the table, and the table afterwards,
\* which keeps the inverse under kInverted.
swapKeysAndValues(obj) ==
  IF obj.cached THEN [result |-> obj.inverted, obj |-> obj]
  ELSE [result |-> Inverse(obj.entries),
        obj |-> TableObject(obj.entries, TRUE, Inverse(obj.entries))]

\* The alg member of derToJwk's result, and the table afterwards.
derToJwk(cryptoKey, table) ==
  LET swapped == swapKeysAndValues(table) IN
  [alg |-> swapped.result[cryptoKey.hash], obj |-> swapped.obj]

\* The keys the calls share.
SharedKeys ==
  { CryptoKey("secret", [name |-> sAES_CTR, length |-> 128], TRUE, {"encrypt", "decrypt"}, Data(1, 16)),
    CryptoKey("secret", [name |-> sHMAC, length |-> 256], FALSE, {"sign", "verify"}, Data(1, 32)),
    CryptoKey("public", [name |-> sRSASSA_PKCS1, length |-> 0], TRUE, {"verify"}, Data(1, 270)) }

SharedOps == {"encrypt", "decrypt", "sign", "verify"}
SharedAlgArgs == {inCTR, inHMAC}
SharedData == Data(1, 16)

\* A call in flight: its arguments, how far it has come, the implementation
\* it resolved, and its outcome once it is done.
NoCall == [op |-> "", alg |-> AlgUndefined, signature |-> Nil, pc |-> "none", impl |-> undefined, done |-> Fail("", <<>>)]

\* The call when nothing else runs.
RunAlone(c, key) ==
  CASE c.op = "encrypt" -> encrypt(c.alg, key, SharedData)
    [] c.op = "decrypt" -> decrypt(c.alg, key, SharedData)
    [] c.op = "sign" -> sign(c.alg, key, SharedData)
    [] c.op = "verify" -> verify(c.alg, key, c.signature, SharedData)

\* The member of the implementation the call ends in.
InvokeMember(c, key) ==
  CASE c.op = "encrypt" -> call_encrypt(c.impl, c.alg, key, toBuffer(SharedData))
    [] c.op = "decrypt" -> call_decrypt(c.impl, c.alg, key, toBuffer(SharedData))
    [] c.op = "sign" -> call_sign(c.impl, c.alg, key, SharedData)
    [] c.op = "verify" -> call_verify(c.impl, c.alg, key, c.signature, SharedData)

InFlight(c) == c.pc \notin {"none", "done"}

InitShared ==
  /\ keys = {}
  /\ last = Record("none", NoArgs, Done("ok", Nil, <<>>))
  /\ ctr = NoCtr
  /\ \E k \in SharedKeys :
       probe = [phase |-> "shared", key |-> k, created |-> k, table |-> FreshTable,
                calls |-> [i \in 1..MaxPending |-> NoCall],
                exported |-> "", overlapped |-> FALSE]

\* One step of call i; overlapped records that another call was in flight.
StepCall(i, c) ==
  /\ probe' = [probe EXCEPT !.calls[i] = c,
                            !.overlapped = @ \/ \E j \in 1..MaxPending : j # i /\ InFlight(probe.calls[j])]
  /\ UNCHANGED <<keys, last, ctr>>

\* encrypt, decrypt, sign or verify is called: getAlgorithm(algorithm, op).
SharedCall ==
  /\ probe.phase = "shared"
  /\ \E i \in 1..MaxPending, op \in SharedOps, a \in SharedAlgArgs,
        sg \in {HMAC_sign(inHMAC, probe.key, SharedData).val, Data(1, MacLen)} :
       /\ probe.calls[i].pc = "none"
       /\ \A j \in 1..(i - 1) : probe.calls[j].pc # "none"
       /\ LET alg == getAlgorithm(a, op)
              c == [NoCall EXCEPT !.op = op, !.alg = a,
                                  !.signature = IF op = "verify" THEN sg ELSE Nil] IN
          StepCall(i, IF alg.err # ""
                      THEN [c EXCEPT !.pc = "done", !.done = Fail(alg.err, <<>>)]
                      ELSE [c EXCEPT !.pc = "resolved", !.impl = alg.impl])

\* The comparison of key.algorithm.name with alg.name.
SharedCheckName ==
  /\ probe.phase = "shared"
  /\ \E i \in 1..MaxPending :
       LET c == probe.calls[i] IN
       /\ c.pc = "resolved"
       /\ StepCall(i, IF probe.key.algorithm.name # c.impl.name
                      THEN [c EXCEPT !.pc = "done", !.done = Fail(InvalidAccessError, <<>>)]
                      ELSE [c EXCEPT !.pc = "named"])

\* requireKeyUsage(key, op)
SharedCheckUsage ==
  /\ probe.phase = "shared"
  /\ \E i \in 1..MaxPending :
       LET c == probe.calls[i] IN
       /\ c.pc = "named"
       /\ StepCall(i, IF ~requireKeyUsage(probe.key, c.op)
                      THEN [c EXCEPT !.pc = "done", !.done = Fail(InvalidAccessError, <<>>)]
                      ELSE [c EXCEPT !.pc = "allowed"])

\* alg[op](algorithm, key, ...)
SharedInvoke ==
  /\ probe.phase = "shared"
  /\ \E i \in 1..MaxPending :
       LET c == probe.calls[i] IN
       /\ c.pc = "allowed"
       /\ StepCall(i, [c EXCEPT !.pc = "done",
                                !.done = Finish(InvokeMember(c, probe.key),
                                                Calls(c.impl, c.op, SharedData))])

\* exportKey('jwk', key) of the RSA key reaches derToJwk.
SharedExportJwk ==
  /\ probe.phase = "shared"
  /\ probe.key.algorithm.name = sRSASSA_PKCS1 /\ probe.key.extractable
  /\ \E h \in {"SHA-1", "SHA-256"} :
       LET r == derToJwk([hash |-> h], probe.table) IN
       probe' = [probe EXCEPT !.table = r.obj, !.exported = r.alg]
  /\ UNCHANGED <<keys, last, ctr>>

NextShared ==
  \/ SharedCall
  \/ SharedCheckName
  \/ SharedCheckUsage
  \/ SharedInvoke
  \/ SharedExportJwk

SpecShared == InitShared /\ [][NextShared]_vars

\* C18 as stated: every finished call has the result it has when it runs
\* alone, and the key and the mapping table object, the value under kInverted
\* included, are as they were created.
C18_NothingModified ==
  probe.phase = "shared" =>
    /\ \A i \in 1..MaxPending :
         probe.calls[i].pc = "done" => probe.calls[i].done = RunAlone(probe.calls[i], probe.created)
    /\ probe.key = probe.created
    /\ probe.table = FreshTable

\* C18: under any interleaving of the steps of encrypt, decrypt, sign and
\* verify calls on one key, every finished call has the result it has when it
\* runs alone, the key and the entries of the mapping table stay as created,
\* and the table holds a value under kInverted only after an export as JWK,
\* which was given the name the fresh table gives.
C18_CallsIsolated ==
  probe.phase = "shared" =>
    /\ \A i \in 1..MaxPending :
         probe.calls[i].pc = "done" => probe.calls[i].done = RunAlone(probe.calls[i], probe.created)
    /\ probe.key = probe.created
    /\ probe.table.entries = jwkHashMapping
    /\ probe.table.inverted = Inverse(jwkHashMapping)
    /\ probe.table.cached => probe.exported # ""
    /\ probe.exported # "" => jwkHashMapping[probe.exported] \in {"SHA-1", "SHA-256"}

\* Two different calls whose steps were interleaved have both returned a value.
C18_Witness ==
  /\ probe.phase = "shared"
  /\ probe.overlapped
  /\ \A i \in 1..2 : probe.calls[i].pc = "done" /\ probe.calls[i].done.outcome = "ok"
  /\ probe.calls[1].op # probe.calls[2].op

\* ---------------------------------------------------------------------------
\* getRandomValues (lib/random.js, two revisions)
\* ---------------------------------------------------------------------------
QuotaExceededError == "QuotaExceededError"
TypeMismatchError == "TypeMismatchError"

\* Bound: the number of views allocated.
MaxArrays == 1
\* The largest byteLength getRandomValues accepts.
Quota == 65536

IntegerViews == {"Int8Array", "Uint8Array", "Int16Array", "Uint16Array", "Int32Array", "Uint32Array", "Uint8ClampedArray"}
FloatViews == {"Float32Array", "Float64Array"}
Views == IntegerViews \cup FloatViews \cup {"DataView"}
ByteLengths == {8, Quota, Quota + 8}
\* What one byte of a view holds: zero after allocation, anything after a fill.
RandomByte == {0, 255}

\* Values passed to getRandomValues: primitives, and references into the heap.
Primitives == {[kind |-> "undefined", ref |-> 0], [kind |-> "null", ref |-> 0], [kind |-> "number", ref |-> 0], [kind |-> "string", ref |-> 0]}
Ref(i) == [kind |-> "object", ref |-> i]
NoValue == [kind |-> "none", ref |-> 0]

isIntegerTypedArray(heap, o) == o.kind = "object" /\ heap[o.ref].view \in IntegerViews

\* The state after a call of getRandomValues.
RandomState(heap, before, arg, outcome, returned, by) == [phase |-> "random", heap |-> heap, before |-> before, arg |-> arg, outcome |-> outcome, returned |-> returned, by |-> by]

\* randomFillSync(array) of node's crypto: TypeError unless array is an
\* ArrayBufferView, whose bytes it overwrites. The set of heaps it may leave.
randomFillSync(heap, array) ==
  IF array.kind # "object" THEN {}
  ELSE { [heap EXCEPT ![array.ref].byte = b] : b \in RandomByte }

InitRandom ==
  /\ keys = {}
  /\ last = Record("none", NoArgs, Done("ok", Nil, <<>>))
  /\ ctr = NoCtr
  /\ probe = RandomState(<<>>, <<>>, NoValue, "", NoValue, "")

\* new View(new ArrayBuffer(byteLength))
Allocate ==
  /\ probe.phase = "random"
  /\ Len(probe.heap) < MaxArrays
  /\ \E v \in Views, n \in ByteLengths :
       probe' = [probe EXCEPT !.heap = Append(@, [view |-> v, byteLength |-> n, byte |-> 0])]
  /\ UNCHANGED <<keys, last, ctr>>

\* getRandomValues(array), the revision with isIntegerTypedArray
GetRandomValues ==
  /\ probe.phase = "random"
  /\ \E array \in Primitives \cup { Ref(i) : i \in 1..Len(probe.heap) } :
       IF ~isIntegerTypedArray(probe.heap, array)
       THEN probe' = RandomState(probe.heap, probe.heap, array, TypeMismatchError, NoValue, "isIntegerTypedArray")
       ELSE IF probe.heap[array.ref].byteLength > Quota
       THEN probe' = RandomState(probe.heap, probe.heap, array, QuotaExceededError, NoValue, "isIntegerTypedArray")
       ELSE \E filled \in randomFillSync(probe.heap, array) :
              probe' = RandomState(filled, probe.heap, array, "ok", array, "isIntegerTypedArray")
  /\ UNCHANGED <<keys, last, ctr>>

\* getRandomValues(array), the revision that checks the byteLength only
GetRandomValuesByteLength ==
  /\ probe.phase = "random"
  /\ \E array \in Primitives \cup { Ref(i) : i \in 1..Len(probe.heap) } :
       IF array.kind \in {"undefined", "null"}
       THEN probe' = RandomState(probe.heap, probe.heap, array, TypeError, NoValue, "byteLength")
       ELSE IF array.kind = "object" /\ probe.heap[array.ref].byteLength > Quota
       THEN probe' = RandomState(probe.heap, probe.heap, array, QuotaExceededError, NoValue, "byteLength")
       ELSE IF randomFillSync(probe.heap, array) = {}
       THEN probe' = RandomState(probe.heap, probe.heap, array, TypeError, NoValue, "byteLength")
       ELSE \E filled \in randomFillSync(probe.heap, array) :
              probe' = RandomState(filled, probe.heap, array, "ok", array, "byteLength")
  /\ UNCHANGED <<keys, last, ctr>>

NextRandom ==
  \/ Allocate
  \/ GetRandomValues
  \/ GetRandomValuesByteLength

SpecRandom == InitRandom /\ [][NextRandom]_vars

\* The heap is the one before the call but for the bytes of the view at ref.
FilledInPlace(heap, before, ref) ==
  /\ Len(heap) = Len(before)
  /\ \A i \in 1..Len(heap) :
       /\ heap[i].view = before[i].view
       /\ heap[i].byteLength = before[i].byteLength
       /\ i # ref => heap[i] = before[i]

\* C19: getRandomValues(x) throws TypeError when x is not an ArrayBufferView,
\* TypeMismatchError when x is a Float32Array or Float64Array of any size,
\* QuotaExceededError when x is an integer typed array of more than 65536
\* bytes, and otherwise fills x in place and returns x itself.
C19_GetRandomValues ==
  (probe.phase = "random" /\ probe.arg.kind # "none") =>
    LET x == probe.arg
        view == probe.before[x.ref].view IN
    IF x.kind # "object" THEN probe.outcome = TypeError
    ELSE IF view \in FloatViews THEN probe.outcome = TypeMismatchError
    ELSE IF view \in IntegerViews /\ probe.before[x.ref].byteLength > Quota
    THEN probe.outcome = QuotaExceededError
    ELSE view \in IntegerViews =>
           /\ probe.outcome = "ok"
           /\ probe.returned = x
           /\ FilledInPlace(probe.heap, probe.before, x.ref)

\* ---------------------------------------------------------------------------
\* AES keys as JSON Web Keys, byte for byte and character for character
\* ---------------------------------------------------------------------------
\* The characters of a base64 text: 0..63 are the places of the standard
\* alphabet ('+' is 62 and '/' is 63), then '=', '-' and '_'.
chPlus == 62
chSlash == 63
chPad == 64
chMinus == 65
chUnderscore == 66
NotAString == <<-1>>


\* buf.toString('base64')
toBase64(buf) ==
  LET n == Len(buf)
      at(j) == IF j <= n THEN buf[j] ELSE 0
      digits == (n * 8 + 5) \div 6 IN
  [i \in 1..(4 * ((n + 2) \div 3)) |->
     IF i > digits THEN chPad
     ELSE LET p == (i - 1) * 6
              w == at(p \div 8 + 1) * 256 + at(p \div 8 + 2) IN
          (w \div Pow2(10 - (p % 8))) % 64]

\* Buffer.from(enc, 'base64'): the characters before the first '=' of a text
\* over either alphabet, six bits each, as whole bytes.
fromBase64(enc) ==
  LET pads == { i \in 1..Len(enc) : enc[i] = chPad }
      m == IF pads = {} THEN Len(enc) ELSE (CHOOSE i \in pads : \A j \in pads : i <= j) - 1
      digit(c) == IF c = chMinus THEN chPlus ELSE IF c = chUnderscore THEN chSlash ELSE c
      at(j) == IF j <= m THEN digit(enc[j]) ELSE 0 IN
  [j \in 1..((m * 6) \div 8) |->
     LET p == (j - 1) * 8
         w == at(p \div 6 + 1) * 64 + at(p \div 6 + 2) IN
     (w \div Pow2(4 - (p % 6))) % 256]

\* decodeBase64Url on a text
decodeBase64UrlText(enc) ==
  IF enc = NotAString THEN Throw(DataError)
  ELSE Ok(fromBase64([i \in 1..Len(enc) |->
                        IF enc[i] = chMinus THEN chPlus
                        ELSE IF enc[i] = chUnderscore THEN chSlash ELSE enc[i]]))

\* encodeBase64Url that leaves the '=' in the text.
encodeBase64UrlText_keepPadding(buf) ==
  LET text == toBase64(buf) IN
  [i \in 1..Len(text) |->
     IF text[i] = chPlus THEN chMinus
     ELSE IF text[i] = chSlash THEN chUnderscore ELSE text[i]]

\* encodeBase64Url on bytes
encodeBase64UrlText(buf) ==
  LET text == toBase64(buf) IN
  SelectSeq([i \in 1..Len(text) |->
               IF text[i] = chPlus THEN chMinus
               ELSE IF text[i] = chSlash THEN chUnderscore ELSE text[i]],
            LAMBDA c : c # chPad)

\* A JSON Web Key; a member that is undefined is "undefined", NotAString, or
\* not defined.
NoAlg == [bits |-> 0, mode |-> <<>>]
Jwk(kty, alg, k, ext, key_ops) == [kty |-> kty, alg |-> alg, k |-> k, ext |-> ext, key_ops |-> key_ops]
Array(list) == [defined |-> TRUE, list |-> list]
NoArray == [defined |-> FALSE, list |-> <<>>]

\* aesBase.importKey('jwk', keyData, params, extractable, keyUsages)
aesBase_importKey(impl, keyData, extractable, keyUsages) ==
  IF ~limitUsages(Range(keyUsages), aesAllowedUsages(impl)) THEN Throw(SyntaxError)
  ELSE IF keyData.kty # "oct" THEN Throw(DataError)
  ELSE LET buf == decodeBase64UrlText(keyData.k) IN
       IF buf.err # "" THEN buf
       ELSE IF keyData.alg # NoAlg /\ keyData.alg # aesJwkAlg(impl, [len |-> Len(buf.val)])
       THEN Throw(DataError)
       ELSE IF keyData.key_ops.defined /\ ~limitUsages(Range(keyUsages), Range(keyData.key_ops.list))
       THEN Throw(DataError)
       ELSE IF keyData.ext = "false" /\ extractable THEN Throw(DataError)
       ELSE IF Len(buf.val) \notin {16, 24, 32} THEN Throw(DataError)
       ELSE Ok([key |-> NewCryptoKey("secret", extractable, keyUsages, buf.val),
                algorithm |-> [name |-> impl.name, length |-> Len(buf.val) * 8]])

\* exportKey(format, key) of the dispatcher and aesBase.exportKey
aesBase_exportKey(impl, format, key) ==
  IF ~get_extractable(key) THEN Throw(InvalidAccessError)
  ELSE LET buf == key.kKeyMaterial IN
       IF format = "raw" THEN Ok([raw |-> buf, jwk |-> Jwk("", NoAlg, NotAString, "undefined", NoArray)])
       ELSE IF format = "jwk"
       THEN Ok([raw |-> <<>>,
                jwk |-> Jwk("oct", aesJwkAlg(impl, [len |-> Len(buf)]), encodeBase64UrlText(buf),
                            IF get_extractable(key) THEN "true" ELSE "false",
                            Array(get_usages(key)))])
       ELSE Throw(NotSupportedError)

\* Inputs.
AesImpls == {AES_CTR, AES_CBC, AES_GCM, AES_KW}
KeyLengths == {8, 16, 24, 32}
KeyBuffers == { [i \in 1..n |-> IF i = 1 THEN first ELSE fill] : n \in KeyLengths, first \in {1, 251}, fill \in {0, 251} }
JwkUsageTokens == {"encrypt", "wrapKey"}
JwkUsageArrays == UNION { [1..n -> JwkUsageTokens] : n \in 0..MaxUsages }

\* Texts that decode to buf: the canonical one, the one with its padding, the
\* one over the standard alphabet, and the one with a bit set after the last
\* byte.
Texts(buf) ==
  LET canonical == encodeBase64UrlText(buf)
      n == Len(canonical) IN
  {canonical, encodeBase64UrlText_keepPadding(buf),
   SelectSeq(toBase64(buf), LAMBDA c : c # chPad)}
  \cup (IF Len(buf) % 3 = 0 THEN {} ELSE {[canonical EXCEPT ![n] = @ + 1]})

JwkInputs(impl, keyUsages) ==
  { Jwk("oct", alg, k, ext, ops) :
      alg \in { aesJwkAlg(impl, [len |-> n]) : n \in {16, 32} },
      k \in UNION { Texts(buf) : buf \in KeyBuffers },
      ext \in {"true", "false"},
      ops \in {Array(keyUsages), Array(<<"encrypt">>)} }
  \cup { Jwk("RSA", NoAlg, NotAString, "undefined", NoArray),
         Jwk("oct", NoAlg, NotAString, "undefined", NoArray) }

JwkState(stage, impl, jwk, extractable, keyUsages, imported, format, exported) == [phase |-> "jwk", stage |-> stage, impl |-> impl, jwk |-> jwk, extractable |-> extractable, keyUsages |-> keyUsages, imported |-> imported, format |-> format, exported |-> exported]

InitJwk ==
  /\ keys = {}
  /\ last = Record("none", NoArgs, Done("ok", Nil, <<>>))
  /\ ctr = NoCtr
  /\ probe = [phase |-> "jwk", stage |-> "start"]

\* subtle.importKey('jwk', jwk, name, extractable, keyUsages)
JwkImportKey ==
  /\ probe.phase = "jwk" /\ probe.stage = "start"
  /\ \E impl \in AesImpls, keyUsages \in JwkUsageArrays, extractable \in BOOLEAN :
       \E jwk \in JwkInputs(impl, keyUsages) :
         probe' = JwkState("imported", impl, jwk, extractable, keyUsages,
                           aesBase_importKey(impl, jwk, extractable, keyUsages), "", Throw(""))
  /\ UNCHANGED <<keys, last, ctr>>

\* subtle.exportKey(format, key)
JwkExportKey ==
  /\ probe.phase = "jwk" /\ probe.stage = "imported" /\ probe.imported.err = ""
  /\ \E format \in {"raw", "jwk", "pkcs8"} :
       probe' = [probe EXCEPT !.stage = "exported", !.format = format,
                              !.exported = aesBase_exportKey(probe.impl, format, probe.imported.val.key)]
  /\ UNCHANGED <<keys, last, ctr>>

NextJwk ==
  \/ JwkImportKey
  \/ JwkExportKey

SpecJwk == InitJwk /\ [][NextJwk]_vars

\* k is the canonical unpadded base64url text of buf: one character for every
\* six bits, none of '+', '/' and '=', and no bit set after the last byte.
IsCanonicalText(k, buf) ==
  /\ k # NotAString
  /\ Len(k) = (Len(buf) * 8 + 5) \div 6
  /\ \A i \in 1..Len(k) : k[i] \notin {chPlus, chSlash, chPad}
  /\ fromBase64(k) = buf
  /\ LET last6 == IF k[Len(k)] = chMinus THEN chPlus ELSE IF k[Len(k)] = chUnderscore THEN chSlash ELSE k[Len(k)] IN
     CASE Len(buf) % 3 = 0 -> TRUE
       [] Len(buf) % 3 = 1 -> last6 % 16 = 0
       [] Len(buf) % 3 = 2 -> last6 % 4 = 0

\* The JWK of the stated shape: kty 'oct', alg of this algorithm and of the
\* length of the key, k the canonical text of a key of 16, 24 or 32 bytes,
\* ext true and key_ops the usages passed, imported as extractable.
StatedJwk ==
  /\ probe.extractable
  /\ probe.jwk.kty = "oct" /\ probe.jwk.ext = "true"
  /\ probe.jwk.key_ops = Array(probe.keyUsages)
  /\ \E buf \in KeyBuffers :
       /\ Len(buf) \in {16, 24, 32}
       /\ IsCanonicalText(probe.jwk.k, buf)
       /\ probe.jwk.alg = aesJwkAlg(probe.impl, [len |-> Len(buf)])

\* The round trip: the import returns a key, whose export as 'jwk' is the
\* imported object and whose export as 'raw' is the bytes k decodes to.
RoundTrips ==
  /\ probe.imported.err = ""
  /\ probe.stage = "exported" =>
       /\ probe.format = "jwk" => probe.exported = Ok([raw |-> <<>>, jwk |-> probe.jwk])
       /\ probe.format = "raw" => probe.exported.err = "" /\ probe.exported.val.raw = fromBase64(probe.jwk.k)

\* C20 as stated: every JWK of the stated shape, whatever the usages U, is
\* imported and exported as 'jwk' deep-equal to itself and as 'raw' as its
\* decoded bytes.
C20_RoundTripAnyUsages ==
  (probe.phase = "jwk" /\ probe.stage # "start" /\ StatedJwk) => RoundTrips

\* C20: a JWK of the stated shape whose usages U are allowed for the
\* algorithm and name no usage twice is imported and exported as 'jwk'
\* deep-equal to itself and as 'raw' as its decoded bytes.
C20_JwkRoundTrip ==
  (/\ probe.phase = "jwk" /\ probe.stage # "start" /\ StatedJwk
   /\ Range(probe.keyUsages) \subseteq aesAllowedUsages(probe.impl)
   /\ NewSet(probe.keyUsages) = probe.keyUsages) => RoundTrips

\* A 16-byte key whose text holds '-' and '_' and whose last character
\* carries four unused bits has been exported as 'jwk' by AES-KW.
C20_Witness ==
  /\ probe.phase = "jwk" /\ probe.stage = "exported" /\ StatedJwk
  /\ probe.impl = AES_KW /\ probe.format = "jwk"
  /\ probe.keyUsages = <<"wrapKey">>
  /\ Len(probe.jwk.k) = 22
  /\ chMinus \in Range(probe.jwk.k) /\ chUnderscore \in Range(probe.jwk.k)
  /\ probe.exported.err = ""

\* ---------------------------------------------------------------------------
\* RSA keys imported as JSON Web Keys (lib/algorithms/rsa.js)
\* ---------------------------------------------------------------------------
\* The JWK mapping table of each RSA algorithm.
rsaJwkHashMapping(name) ==
  CASE name = sRSASSA_PKCS1 -> [a \in {"RS1", "RS256", "RS384", "RS512"} |-> CASE a = "RS1" -> sSHA_1 [] a = "RS256" -> sSHA_256 [] a = "RS384" -> sSHA_384 [] a = "RS512" -> sSHA_512]
    [] name = sRSA_PSS -> [a \in {"PS1", "PS256", "PS384", "PS512"} |-> CASE a = "PS1" -> sSHA_1 [] a = "PS256" -> sSHA_256 [] a = "PS384" -> sSHA_384 [] a = "PS512" -> sSHA_512]
    [] name = sRSA_OAEP -> [a \in {"RSA-OAEP", "RSA-OAEP-256", "RSA-OAEP-384", "RSA-OAEP-512"} |-> CASE a = "RSA-OAEP" -> sSHA_1 [] a = "RSA-OAEP-256" -> sSHA_256 [] a = "RSA-OAEP-384" -> sSHA_384 [] a = "RSA-OAEP-512" -> sSHA_512]

\* Names every object inherits from Object.prototype.
InheritedNames == {"toString", "constructor"}

\* jwkHashMapping[jwk.alg] === undefined
mappingUndefined(table, alg) == alg \notin DOMAIN table /\ alg \notin InheritedNames

\* An RSA JWK: alg and use are "" when absent, private tells whether d is there.
RsaJwk(kty, use, alg, private) == [kty |-> kty, use |-> use, alg |-> alg, private |-> private]

\* jwkToDer(jwk, jwkHashMapping): the PKCS#1 structure, public or private.
jwkToDer(jwk, table) ==
  IF jwk.kty # "RSA" THEN Throw(DataError)
  ELSE IF jwk.use # "" /\ jwk.use # "sig" THEN Throw(DataError)
  ELSE IF jwk.alg # "" /\ mappingUndefined(table, jwk.alg) THEN Throw(DataError)
  ELSE Ok([kind |-> "der", type |-> "pkcs1", private |-> jwk.private])

\* Whether the algorithm has a sign member.
rsaSigns(name) == name \in {sRSASSA_PKCS1, sRSA_PSS}

\* rsaBase.importKey('jwk', keyData, params, extractable, keyUsages)
rsa_importKey(name, keyData, hashAlg, extractable, keyUsages) ==
  LET hashImpl == getAlgorithm(hashAlg, "digest")
      isPublic == ~keyData.private
      allowed == IF isPublic
                 THEN (IF rsaSigns(name) THEN {"verify"} ELSE {"encrypt", "wrapKey"})
                 ELSE (IF rsaSigns(name) THEN {"sign"} ELSE {"decrypt", "unwrapKey"}) IN
  IF hashImpl.err # "" THEN Throw(hashImpl.err)
  ELSE IF ~limitUsages(keyUsages, allowed) THEN Throw(SyntaxError)
  ELSE LET der == jwkToDer(keyData, rsaJwkHashMapping(name)) IN
       IF der.err # "" THEN der
       ELSE Ok(CryptoKey(IF isPublic THEN "public" ELSE "private",
                         [name |-> name, hash |-> hashImpl.impl.name],
                         extractable, keyUsages, der.val))

RsaNames == {sRSASSA_PKCS1, sRSA_PSS, sRSA_OAEP}
RsaJwkAlgs == {"", "RS256", "RS512", "PS256", "RSA-OAEP-256", "RS257", "toString"}
RsaHashArgs == {AlgString(sSHA_1), AlgString(sSHA_256), AlgString(toLowerCase(sSHA_512)), AlgString(sHMAC)}
RsaUsageSets == {{}, {"verify"}, {"sign"}, {"encrypt"}, {"decrypt"}}
RsaJwks == { RsaJwk(kty, use, alg, private) : kty \in {"RSA", "oct"}, use \in {"", "sig", "enc"}, alg \in RsaJwkAlgs, private \in BOOLEAN }

InitRsaJwk ==
  /\ keys = {}
  /\ last = Record("none", NoArgs, Done("ok", Nil, <<>>))
  /\ ctr = NoCtr
  /\ probe = [phase |-> "rsa jwk", stage |-> "start"]

\* subtle.importKey('jwk', jwk, {name, hash}, extractable, keyUsages)
RsaImportJwk ==
  /\ probe.phase = "rsa jwk" /\ probe.stage = "start"
  /\ \E name \in RsaNames, jwk \in RsaJwks, hashAlg \in RsaHashArgs, keyUsages \in RsaUsageSets :
       probe' = [phase |-> "rsa jwk", stage |-> "imported", name |-> name, jwk |-> jwk,
                 hashAlg |-> hashAlg, keyUsages |-> keyUsages,
                 imported |-> rsa_importKey(name, jwk, hashAlg, TRUE, keyUsages), exported |-> ""]
  /\ UNCHANGED <<keys, last, ctr>>

\* subtle.exportKey('jwk', key): the alg member derToJwk gives the key.
RsaExportJwk ==
  /\ probe.phase = "rsa jwk" /\ probe.stage = "imported" /\ probe.imported.err = ""
  /\ LET table == rsaJwkHashMapping(probe.name)
         hash == probe.imported.val.algorithm.hash IN
     probe' = [probe EXCEPT !.stage = "exported",
                            !.exported = CHOOSE a \in DOMAIN table : table[a] = hash]
  /\ UNCHANGED <<keys, last, ctr>>

NextRsaJwk ==
  \/ RsaImportJwk
  \/ RsaExportJwk

SpecRsaJwk == InitRsaJwk /\ [][NextRsaJwk]_vars

\* C21: an RSA import of a JWK whose alg is present and is either no key of
\* the algorithm's mapping table or maps to a hash other than the one the
\* descriptor names fails with DataError; a key is created only when alg is
\* absent or maps to the requested hash.
C21_AlgMustMatchHash ==
  (probe.phase = "rsa jwk" /\ probe.stage = "imported") =>
    LET table == rsaJwkHashMapping(probe.name)
        hashImpl == getAlgorithm(probe.hashAlg, "digest")
        alg == probe.jwk.alg
        matches == alg \in DOMAIN table /\ hashImpl.err = "" /\ table[alg] = hashImpl.impl.name IN
    /\ (alg # "" /\ ~matches /\ hashImpl.err = "" /\ probe.imported.err # SyntaxError)
         => probe.imported.err = DataError
    /\ probe.imported.err = "" => (alg = "" \/ matches)

\* ---------------------------------------------------------------------------
\* RSA generateKey and the public exponent (lib/algorithms/rsa.js)
\* ---------------------------------------------------------------------------
\* Bound: the number of bytes of a publicExponent.
MaxExpLen == 6

\* uint8ArrayToUint32: the loop over the bytes on a signed 32-bit result, and
\* the final result & 0xffffffff, which leaves a signed 32-bit value as it is.
RECURSIVE uint8ArrayLoop(_, _, _)
uint8ArrayLoop(bigInteger, i, result) ==
  IF i > Len(bigInteger) THEN Ok(result)
  ELSE IF result > 16777215 THEN Throw(NotSupportedError)
  ELSE uint8ArrayLoop(bigInteger, i + 1, shiftOr(result, bigInteger[i]))

uint8ArrayToUint32(bigInteger) == uint8ArrayLoop(bigInteger, 1, 0)

\* integer >> 8 on a signed 32-bit value.
sar8(integer) == IF integer >= 0 THEN integer \div 256 ELSE -(((-integer) + 255) \div 256)

\* uint32ToUint8Array: the bytes written from the end of the 8-byte buffer;
\* the loop never ends on a negative integer, which >> keeps negative.
RECURSIVE uint32Loop(_, _)
uint32Loop(integer, result) ==
  IF integer = 0 THEN result
  ELSE uint32Loop(sar8(integer), <<integer % 256>> \o result)

uint32ToUint8Array(integer) ==
  IF integer < 0 THEN [diverges |-> TRUE, result |-> <<>>]
  ELSE [diverges |-> FALSE, result |-> uint32Loop(integer, <<>>)]

\* generateKeyPair('rsa', {modulusLength, publicExponent}) of the provider
\* refuses an exponent that is no unsigned 32-bit number, and may fail on any.
generateKeyPair(publicExponent) ==
  IF publicExponent < 0 THEN {TypeError} ELSE {"", OperationError}

\* rsaBase.generateKey: the outcome and the publicExponent of the descriptor.
rsa_generateKey(rawPublicExponent, providerOutcome) ==
  LET publicExponent == uint8ArrayToUint32(rawPublicExponent) IN
  IF publicExponent.err # "" THEN [outcome |-> publicExponent.err, uint32 |-> 0, echoed |-> <<>>]
  ELSE IF providerOutcome # "" THEN [outcome |-> providerOutcome, uint32 |-> publicExponent.val, echoed |-> <<>>]
  ELSE LET back == uint32ToUint8Array(publicExponent.val) IN
       [outcome |-> IF back.diverges THEN "diverges" ELSE "ok",
        uint32 |-> publicExponent.val, echoed |-> back.result]

ExponentBytes == {0, 1, 128}
PublicExponents == BytesUpTo(ExponentBytes, MaxExpLen)

InitRsaGen ==
  /\ keys = {}
  /\ last = Record("none", NoArgs, Done("ok", Nil, <<>>))
  /\ ctr = NoCtr
  /\ probe = [phase |-> "rsa generate", stage |-> "start"]

\* subtle.generateKey({name, modulusLength, publicExponent, hash}, ...)
RsaGenerateKey ==
  /\ probe.phase = "rsa generate" /\ probe.stage = "start"
  /\ \E raw \in PublicExponents :
       \E providerOutcome \in (IF uint8ArrayToUint32(raw).err # "" THEN {""}
                                ELSE generateKeyPair(uint8ArrayToUint32(raw).val)) :
         probe' = [phase |-> "rsa generate", stage |-> "generated", raw |-> raw,
                   generated |-> rsa_generateKey(raw, providerOutcome)]
  /\ UNCHANGED <<keys, last, ctr>>

\* The same call with a fresh exponent after a call that returned.
RsaGenerateAgain ==
  /\ probe.phase = "rsa generate" /\ probe.stage = "generated"
  /\ probe.generated.outcome = "ok"
  /\ \E raw \in {<<1, 0, 1>>, <<0, 0, 0, 1, 0, 1>>, <<1, 0, 0, 1>>} :
       probe' = [probe EXCEPT !.raw = raw, !.generated = rsa_generateKey(raw, "")]
  /\ UNCHANGED <<keys, last, ctr>>

NextRsaGen ==
  \/ RsaGenerateKey
  \/ RsaGenerateAgain

SpecRsaGen == InitRsaGen /\ [][NextRsaGen]_vars

\* The value of at most three bytes read big-endian.
ValueOf(bytes) == IF bytes = <<>> THEN 0 ELSE IF Len(bytes) = 1 THEN bytes[1] ELSE IF Len(bytes) = 2 THEN bytes[1] * 256 + bytes[2] ELSE bytes[1] * 65536 + bytes[2] * 256 + bytes[3]

\* C22: an exponent of more than three significant bytes fails with
\* NotSupportedError; an exponent of at most three is converted to its value,
\* and when the keys are returned the descriptor echoes the significant bytes.
C22_ExponentConversion ==
  (probe.phase = "rsa generate" /\ probe.stage = "generated") =>
    LET significant == SignificantBytes(probe.raw) IN
    IF Len(significant) > 3 THEN probe.generated.outcome = NotSupportedError
    ELSE /\ probe.generated.outcome \in {"ok", OperationError}
         /\ probe.generated.uint32 = ValueOf(significant)
         /\ probe.generated.outcome = "ok" => probe.generated.echoed = significant

\* ---------------------------------------------------------------------------
\* ECDH deriveBits (lib/algorithms/ecdh.js)
\* ---------------------------------------------------------------------------
\* length >>= 3 for a length of 8 * lengthDiv8 bits: the shift works on the
\* low 32 bits of the length, read as a signed number.
shiftRight3(lengthDiv8) == LET m == lengthDiv8 % 536870912 IN IF m >= 268435456 THEN m - 536870912 ELSE m

\* ecdh.computeSecret(publicKey): the x coordinate of the shared point, the
\* same for a private key with the other's public key and the reverse.
computeSecret(namedCurve, privateId, publicId) == [i \in 1..curveInfo(namedCurve) |-> (i * 7 + privateId * publicId * 31) % 256]

\* ECDH.deriveBits(params, key, length)
ECDH_deriveBits(namedCurve, privateId, publicId, lengthDiv8) ==
  LET length == shiftRight3(lengthDiv8)
      secret == computeSecret(namedCurve, privateId, publicId) IN
  IF Len(secret) < length THEN Throw(OperationError)
  ELSE Ok(bufferSlice(secret, 0, length))

\* Lengths in bytes: up to the size of a secret and beyond, and lengths of
\* 2^31 bits and more, which an unsigned long holds.
EcdhLengths == {0, 1, 16, 32, 33, 48, 49, 66, 67, 268435456, 536870880}
NotDerived == [err |-> "not called", val |-> <<>>]

InitEcdh ==
  /\ keys = {}
  /\ last = Record("none", NoArgs, Done("ok", Nil, <<>>))
  /\ ctr = NoCtr
  /\ probe = [phase |-> "ecdh", stage |-> "start"]

\* Two generateKey calls on one curve give alice and bob their key pairs.
EcdhGenerateKeys ==
  /\ probe.phase = "ecdh" /\ probe.stage = "start"
  /\ \E namedCurve \in {"P-256", "P-384", "P-521"}, a \in 1..3, b \in 4..5 :
       probe' = [phase |-> "ecdh", stage |-> "generated", namedCurve |-> namedCurve,
                 ids |-> <<a, b>>, lengthDiv8 |-> 0, derived |-> <<NotDerived, NotDerived>>]
  /\ UNCHANGED <<keys, last, ctr>>

\* subtle.deriveBits({name: 'ECDH', public: other.publicKey}, own.privateKey, length)
EcdhDeriveBits ==
  /\ probe.phase = "ecdh" /\ probe.stage = "generated"
  /\ \E side \in 1..2, lengthDiv8 \in EcdhLengths :
       /\ probe.derived[3 - side] # NotDerived => lengthDiv8 = probe.lengthDiv8
       /\ probe.derived[side] = NotDerived
       /\ LET r == ECDH_deriveBits(probe.namedCurve, probe.ids[side], probe.ids[3 - side], lengthDiv8) IN
          probe' = [probe EXCEPT !.lengthDiv8 = lengthDiv8,
                                 !.derived[side] = [err |-> r.err, val |-> IF r.err = "" THEN r.val ELSE <<>>]]
  /\ UNCHANGED <<keys, last, ctr>>

NextEcdh ==
  \/ EcdhGenerateKeys
  \/ EcdhDeriveBits

SpecEcdh == InitEcdh /\ [][NextEcdh]_vars

\* C23: deriveBits fails with OperationError when the shared secret has fewer
\* than length / 8 bytes and otherwise returns its first length / 8 bytes, so
\* the two sides of an agreement get equal results for equal lengths.
C23_DeriveBitsTruncates ==
  (probe.phase = "ecdh" /\ probe.stage = "generated") =>
    /\ \A side \in 1..2 :
         probe.derived[side] # NotDerived =>
           LET secret == computeSecret(probe.namedCurve, probe.ids[side], probe.ids[3 - side]) IN
           IF Len(secret) < probe.lengthDiv8 THEN probe.derived[side].err = OperationError
           ELSE probe.derived[side] = [err |-> "", val |-> SubSeq(secret, 1, probe.lengthDiv8)]
    /\ (probe.derived[1] # NotDerived /\ probe.derived[2] # NotDerived)
         => probe.derived[1] = probe.derived[2]

\* ---------------------------------------------------------------------------
\* HMAC importKey and the length of the key (lib/algorithms/hmac.js)
\* ---------------------------------------------------------------------------
\* Byte lengths of the key data, up to buffers of 2^28 and 2^29 bytes.
HmacByteLengths == {0, 1, 2, 32, 64, 268435456, 536870912}
\* The length member: absent, or a number around the bits of the key data.
HmacLengths(n) == {UndefinedLength, 0, 1, 2147483647} \cup (IF n < 268435456 THEN { n * 8 + d : d \in -9..1 } \ {UndefinedLength} ELSE {})

InitHmacImport ==
  /\ keys = {}
  /\ last = Record("none", NoArgs, Done("ok", Nil, <<>>))
  /\ ctr = NoCtr
  /\ probe = [phase |-> "hmac import", stage |-> "start"]

\* subtle.importKey('raw', keyData, {name: 'HMAC', hash, length}, ...)
HmacImportKey ==
  /\ probe.phase = "hmac import"
  /\ \E n \in HmacByteLengths, usages \in {{"sign"}, {"verify"}, {"sign", "verify"}} :
       \E length \in HmacLengths(n) :
         probe' = [phase |-> "hmac import", stage |-> "imported", byteLength |-> n,
                   length |-> length,
                   imported |-> HMAC_importKey("raw", Data(1, n), AlgObject(sHMAC, length), TRUE, usages)]
  /\ UNCHANGED <<keys, last, ctr>>

\* key.algorithm.length read from the key returned.
HmacReadLength ==
  /\ probe.phase = "hmac import" /\ probe.stage = "imported" /\ probe.imported.err = ""
  /\ probe' = [probe EXCEPT !.stage = "read", !.length = probe.imported.val.algorithm.length]
  /\ UNCHANGED <<keys, last, ctr>>

NextHmacImport ==
  \/ HmacImportKey
  \/ HmacReadLength

SpecHmacImport == InitHmacImport /\ [][NextHmacImport]_vars

\* length is in (dataBits - 8, dataBits] for key data of n bytes.
InLastByte(length, n) == length >= 0 /\ (length \div 8) + (IF length % 8 = 0 THEN 0 ELSE 1) = n

\* C24: an empty key fails with DataError; without a length the key's
\* algorithm.length is the number of bits of the key data; with a length the
\* import succeeds, keeping that length, exactly when the length lies in
\* (dataBits - 8, dataBits], and fails with DataError otherwise.
C24_HmacImportLength ==
  (probe.phase = "hmac import" /\ probe.stage = "imported") =>
    LET n == probe.byteLength
        r == probe.imported IN
    IF n = 0 THEN r.err = DataError
    ELSE IF probe.length = UndefinedLength
    THEN r.err = "" /\ r.val.algorithm.length % 8 = 0 /\ r.val.algorithm.length \div 8 = n
    ELSE IF InLastByte(probe.length, n)
    THEN r.err = "" /\ r.val.algorithm.length = probe.length
    ELSE r.err = DataError

\* ---------------------------------------------------------------------------
\* AES-CTR: the counter block used after the counter has overflowed
\* ---------------------------------------------------------------------------
\* The counter block with its low `length` bits zero, and the same with the
\* bit above them zero as well.
LowBitsZeroed(iv, length) == BlockOf([i \in 0..127 |-> IF i < length THEN 0 ELSE BitsOf(iv)[i]])
LowBitsAndNextZeroed(iv, length) == BlockOf([i \in 0..127 |-> IF i <= length THEN 0 ELSE BitsOf(iv)[i]])

\* An encryption whose counter of fewer than 128 bits overflowed in the data.
OverflowedInData ==
  /\ ctr.phase = "encrypted" /\ ctr.out.err = ""
  /\ ctr.params.length \in 1..127
  /\ ~countBlocksBeforeOverflow(ctr.params.counter, ctr.params.length, Len(ctr.data), 0, 1).early

\* Every byte after the first run is combined with the keystream of the
\* counter block that counts from `start` anew in each chunk of 2^L blocks.
RestartsFrom(start) ==
  LET L == ctr.params.length
      n == countBlocksBeforeOverflow(ctr.params.counter, L, Len(ctr.data), 0, 1).n IN
  \A k \in 1..Len(ctr.out.val) :
    LET j == (k - 1) \div BlockSize IN
    j >= n =>
      ctr.out.val[k].ks = {[cipher |-> cipherName(ctr.key), key |-> ctr.key,
                            counter |-> AddBigEndian(start, BlockSize, (j - n) % Pow2(L)),
                            offset |-> (k - 1) % BlockSize]}

\* C25 as stated: after an overflow inside the data every chunk of 2^L blocks
\* starts from the supplied counter block with its low L bits zeroed and the
\* bit above the counter cleared.
C25_OverflowIVClearsBitAbove ==
  OverflowedInData => RestartsFrom(LowBitsAndNextZeroed(ctr.params.counter, ctr.params.length))

\* C25: after an overflow inside the data every chunk of 2^L blocks starts
\* from the supplied counter block with its low L bits zeroed and every bit
\* above the counter as supplied.
C25_OverflowIVKeepsHighBits ==
  OverflowedInData => RestartsFrom(LowBitsZeroed(ctr.params.counter, ctr.params.length))

\* A counter of one bit under set high bits overflowed after the first block
\* and two chunks of two blocks followed.
C25_Witness ==
  /\ OverflowedInData
  /\ ctr.params.length = 1
  /\ ctr.params.counter = Ones(16)
  /\ Len(ctr.data) >= 4 * BlockSize
  /\ ctr.out.val[2 * BlockSize].ks = ctr.out.val[4 * BlockSize].ks

\* ---------------------------------------------------------------------------
\* The DER INTEGER of reference
\* ---------------------------------------------------------------------------
\* The minimal content of a non-negative INTEGER: the significant bytes, under
\* one zero byte when the first has its most significant bit set, and the
\* single byte 0 for the value zero.
MinimalContent(integer) ==
  LET significant == SignificantBytes(integer) IN
  IF significant = <<>> THEN <<0>>
  ELSE IF significant[1] >= 128 THEN <<0>> \o significant ELSE significant

\* The length field of DER for a content of len bytes, len below 2^16.
MinimalLengthField(len) == IF len < 128 THEN <<len>> ELSE IF len < 256 THEN <<129, len>> ELSE <<130, len \div 256, len % 256>>

RECURSIVE MinimalIntegers(_)
MinimalIntegers(ints) ==
  IF ints = <<>> THEN <<>>
  ELSE LET content == MinimalContent(ints[1]) IN
       <<tagInteger>> \o MinimalLengthField(Len(content)) \o content \o MinimalIntegers(Tail(ints))

\* C26: what the encoder has emitted for the integers given to it is, for
\* each, the tag, the length field and the minimal content of its value, never
\* empty, and the length it has accumulated is the size of what it emitted.
C26_EncoderMinimal ==
  (probe.phase = "asn1" /\ ~probe.crafted /\ probe.ints # <<>>) =>
    /\ probe.enc.elements = MinimalIntegers(probe.ints)
    /\ probe.enc.length = Len(probe.enc.elements)

\* The INTEGER element of a buffer at offset `at`: its declared length and its
\* content, the bytes the length field declares.
ElementAt(buffer, at) ==
  LET d == DeclaredLength(buffer, at + 1)
      start == at + 1 + d.size IN
  [d |-> d, content |-> IF d.ok /\ ~d.big THEN bufferSlice(buffer, start, start + d.value) ELSE <<>>]

\* A length field in the minimal form of DER: the short form below 128, and
\* otherwise the long form without a leading zero byte.
MinimalLength(buffer, at) ==
  LET d == DeclaredLength(buffer, at) IN
  /\ d.ok
  /\ d.size > 1 => /\ ByteAt(buffer, at + 1) # 0
                   /\ d.big \/ d.value >= 128

\* A content in the minimal form of DER: not empty, and no zero byte before a
\* byte whose most significant bit is clear.
MinimalForm(content) ==
  /\ content # <<>>
  /\ ~(Len(content) > 1 /\ content[1] = 0 /\ content[2] < 128)

\* C27 (how much is stripped): an unsignedInteger call that returns gives the
\* content of the element, or the content without its first byte when that
\* byte is zero.
C27_StripsAtMostOneZero ==
  [][(/\ probe.phase = "asn1" /\ probe.stage \in {"decoding", "decoding crafted"}
      /\ Len(probe'.out) = Len(probe.out) + 1
      /\ ~probe'.dec.nan /\ probe'.dec.offset <= Len(probe.buf))
     => LET e == ElementAt(probe.buf, probe.dec.offset)
            result == probe'.out[Len(probe'.out)] IN
        \/ result = e.content
        \/ e.content # <<>> /\ e.content[1] = 0 /\ result = Tail(e.content)]_vars

\* C27: an unsignedInteger call returns only for an element whose length
\* field and content are in minimal form, and then removes a leading zero
\* only from before a byte with the most significant bit set.
C27_DecoderRejectsNonMinimal ==
  [][(/\ probe.phase = "asn1" /\ probe.stage \in {"decoding", "decoding crafted"}
      /\ Len(probe'.out) = Len(probe.out) + 1)
     => LET e == ElementAt(probe.buf, probe.dec.offset)
            result == probe'.out[Len(probe'.out)] IN
        /\ MinimalLength(probe.buf, probe.dec.offset + 1)
        /\ MinimalForm(e.content)
        /\ result = IF e.content[1] = 0 /\ Len(e.content) > 1 THEN Tail(e.content) ELSE e.content]_vars

\* ---------------------------------------------------------------------------
\* HKDF.deriveBits block by block (lib/algorithms/hkdf.js)
\* ---------------------------------------------------------------------------
\* The byte length of an HMAC of the provider, by hash function.
hmacLength(hashFn) == CASE hashFn = sSHA_1 -> 20 [] hashFn = sSHA_256 -> 32 [] hashFn = sSHA_384 -> 48 [] hashFn = sSHA_512 -> 64 [] OTHER -> 0

\* hmac(hash, key, data): createHmac(hash, key).update(data).digest(), a
\* value determined by the three arguments.
hmac(hash, key, data) == [kind |-> "mac", hash |-> hash, key |-> key, data |-> data]

\* Buffer.from([n]): the element is stored modulo 256.
byteFrom(n) == n % 256

\* Math.ceil(length / hashLen) for a length that is not negative.
ceilDiv(length, hashLen) == (length + hashLen - 1) \div hashLen

\* The data of block i + 1 in the loop: Buffer.concat([t, info, Buffer.from([i + 1])]),
\* where t is the previous block, written as its index (0 for the empty buffer).
blockData(i, info) == [t |-> i, info |-> info, counter |-> byteFrom(i + 1)]

\* HKDF.deriveBits with the blocks it computes: blocks is the array of the
\* loop and len the number of bytes all.slice(0, length) returns.
HKDF_deriveBits_blocks(params, keyMaterial, length) ==
  IF length = NullLength THEN Throw(OperationError)
  ELSE LET bytes == length \div 8
           hashFn == opensslHashFunctionName(params.hash) IN
       IF hashFn.err # "" THEN Throw(hashFn.err)
       ELSE LET pseudoRandomKey == hmac(hashFn.val, toBuffer(params.salt), keyMaterial)
                hashLen == hmacLength(hashFn.val)
                N == ceilDiv(bytes, hashLen)
                blocks == [i \in 1..N |-> hmac(hashFn.val, pseudoRandomKey, blockData(i - 1, toBuffer(params.info)))] IN
            Ok([kind |-> "derived", blocks |-> blocks, len |-> Min(bytes, N * hashLen)])

HkdfHashes == {AlgString(sSHA_1), AlgString(sSHA_256), AlgString(sHKDF)}
HkdfSalts == {Data(5, 0), Data(6, 13)}
HkdfInfos == {Data(7, 0), Data(8, 10)}
HkdfKeyData == {Data(1, 22), Data(2, 80)}
\* Lengths in bits: none, zero, the lengths of the RFC 5869 vectors, lengths
\* around one block, and lengths around 255 blocks of SHA-1 and SHA-256.
HkdfLengths == {NullLength, 0, 8, 160, 168, 336, 656, 40800, 40808, 65280, 65288}

NoKeyMaterial == Data(0, 0)
HkdfState(keyMaterial, params, length, result) == [phase |-> "hkdf", keyMaterial |-> keyMaterial, params |-> params, length |-> length, result |-> result]

InitHkdf ==
  /\ keys = {}
  /\ last = Record("none", NoArgs, Done("ok", Nil, <<>>))
  /\ ctr = NoCtr
  /\ probe = HkdfState(NoKeyMaterial, Nil, NullLength, Throw("none"))

\* HKDF.importKey('raw', keyData, params, false, ['deriveBits']): the key
\* material is a copy of the key data.
HkdfImportKey ==
  /\ probe.phase = "hkdf"
  /\ \E keyData \in HkdfKeyData :
       probe' = HkdfState(keyData, Nil, NullLength, Throw("none"))
  /\ UNCHANGED <<keys, last, ctr>>

HkdfDeriveBits ==
  /\ probe.phase = "hkdf" /\ probe.keyMaterial # NoKeyMaterial
  /\ \E hash \in HkdfHashes, salt \in HkdfSalts, info \in HkdfInfos, length \in HkdfLengths :
       LET params == [hash |-> hash, salt |-> salt, info |-> info] IN
       probe' = HkdfState(probe.keyMaterial, params, length,
                          HKDF_deriveBits_blocks(params, probe.keyMaterial, length))
  /\ UNCHANGED <<keys, last, ctr>>

NextHkdf ==
  \/ HkdfImportKey
  \/ HkdfDeriveBits

SpecHkdf == InitHkdf /\ [][NextHkdf]_vars

\* T(i) of RFC 5869 for the call of the state: HMAC(PRK, T(i-1) || info || i),
\* with the counter the number i itself.
ExpandBlock(i) ==
  LET hashFn == opensslHashFunctionName(probe.params.hash).val
      PRK == hmac(hashFn, probe.params.salt, probe.keyMaterial) IN
  hmac(hashFn, PRK, [t |-> i - 1, info |-> probe.params.info, counter |-> i])

\* C28: a deriveBits call that returns for L = length / 8 bytes has computed
\* N = ceil(L / hashLen) blocks, block i from block i - 1, the info and a
\* counter byte equal to i, and returns the first L bytes of them; for the
\* length 0 it has computed none and returns nothing.
C28_HkdfExpand ==
  (probe.phase = "hkdf" /\ probe.result.err = "") =>
    LET L == probe.length \div 8
        hashLen == hmacLength(opensslHashFunctionName(probe.params.hash).val)
        blocks == probe.result.val.blocks IN
    /\ Len(blocks) * hashLen >= L /\ (Len(blocks) - 1) * hashLen < L
    /\ \A i \in 1..Len(blocks) : blocks[i] = ExpandBlock(i)
    /\ probe.result.val.len = L
    /\ L = 0 => blocks = <<>>

\* ---------------------------------------------------------------------------
\* ECDSA signature conversion (lib/algorithms/ecdsa.js, second revision)
\* ---------------------------------------------------------------------------
\* source.copy(target, targetStart) for a target that has room for the
\* source: RangeError for a negative targetStart.
bufferCopy(target, source, targetStart) ==
  IF targetStart < 0 THEN Throw(RangeError)
  ELSE Ok([i \in 1..Len(target) |->
             IF i > targetStart /\ i <= targetStart + Len(source) THEN source[i - targetStart] ELSE target[i]])

\* convertSignatureFromASN1 with r and s copied to the start of their halves.
convertSignatureFromASN1_noPadding(signature, n) ==
  LET c == NewDecoder(signature) IN
  IF c.err # "" THEN Throw(c.err)
  ELSE LET r == Decoder_unsignedInteger(signature, c.dec) IN
       IF r.err # "" THEN Throw(r.err)
       ELSE LET s == Decoder_unsignedInteger(signature, r.dec) IN
            IF s.err # "" THEN Throw(s.err)
            ELSE IF Decoder_end(signature, s.dec) # "" THEN Throw(Decoder_end(signature, s.dec))
            ELSE LET withR == bufferCopy([i \in 1..(2 * n) |-> 0], r.result, 0) IN
                 IF withR.err # "" THEN withR
                 ELSE bufferCopy(withR.val, s.result, n)

\* convertSignatureFromASN1: r and s of the DER SEQUENCE, each at the end of
\* its half of 2n zero bytes.
convertSignatureFromASN1(signature, n) ==
  LET c == NewDecoder(signature) IN
  IF c.err # "" THEN Throw(c.err)
  ELSE LET r == Decoder_unsignedInteger(signature, c.dec) IN
       IF r.err # "" THEN Throw(r.err)
       ELSE LET s == Decoder_unsignedInteger(signature, r.dec) IN
            IF s.err # "" THEN Throw(s.err)
            ELSE IF Decoder_end(signature, s.dec) # "" THEN Throw(Decoder_end(signature, s.dec))
            ELSE LET withR == bufferCopy([i \in 1..(2 * n) |-> 0], r.result, n - Len(r.result)) IN
                 IF withR.err # "" THEN withR
                 ELSE bufferCopy(withR.val, s.result, 2 * n - Len(s.result))

\* What crypto.sign returns for the pair (r, s): the DER SEQUENCE of the two
\* INTEGERs in minimal form.
providerSignature(r, s) ==
  LET body == MinimalIntegers(<<r, s>>) IN
  <<tagSequence>> \o MinimalLengthField(Len(body)) \o body

\* ECDSA.sign after the provider has computed (r, s).
ECDSA_sign(key, r, s) ==
  IF key.type # "private" THEN Throw(InvalidAccessError)
  ELSE convertSignatureFromASN1(providerSignature(r, s), curveInfo(key.namedCurve))

\* The halves of a signature: z zero bytes, a first byte and a fill, so that
\* a half begins with no, one or two zero bytes or is all zero, and the byte
\* after the zeros has the most significant bit set or clear.
OrderSizes == {32, 48, 66}
SigCurves == {"P-256", "P-384", "P-521"}
HalfFirst == {1, 128}
HalfFill == {0, 255}
Half(n, z, f, g) == [i \in 1..n |-> IF i <= z THEN 0 ELSE IF i = z + 1 THEN f ELSE g]
Halves(n) == { Half(n, z, f, g) : z \in {0, 1, 2, n}, f \in HalfFirst, g \in HalfFill }

InitEcdsaSig ==
  /\ keys = {}
  /\ last = Record("none", NoArgs, Done("ok", Nil, <<>>))
  /\ ctr = NoCtr
  /\ \E c \in SigCurves, t \in {"public", "private"} :
       \E r \in Halves(curveInfo(c)), s \in Halves(curveInfo(c)) :
         probe = [phase |-> "ecdsa sig", stage |-> "start", key |-> [type |-> t, namedCurve |-> c],
                  r |-> r, s |-> s, der |-> <<>>, back |-> Throw("")]

\* convertSignatureToASN1(r || s, n), as verify calls it.
SigToASN1 ==
  /\ probe.phase = "ecdsa sig" /\ probe.stage = "start" /\ probe.key.type = "public"
  /\ LET sig == convertSignatureToASN1(probe.r \o probe.s, curveInfo(probe.key.namedCurve)) IN
       /\ sig.defined
       /\ probe' = [probe EXCEPT !.stage = "der", !.der = sig.der]
  /\ UNCHANGED <<keys, last, ctr>>

\* convertSignatureFromASN1 of what convertSignatureToASN1 returned.
SigFromASN1 ==
  /\ probe.phase = "ecdsa sig" /\ probe.stage = "der"
  /\ probe' = [probe EXCEPT !.stage = "back",
                            !.back = convertSignatureFromASN1(probe.der, curveInfo(probe.key.namedCurve))]
  /\ UNCHANGED <<keys, last, ctr>>

\* ECDSA.sign with a private key, for a pair (r, s) of values that are not
\* zero.
SigSign ==
  /\ probe.phase = "ecdsa sig" /\ probe.stage = "start"
  /\ probe.r # Zeros(Len(probe.r)) /\ probe.s # Zeros(Len(probe.s))
  /\ probe' = [probe EXCEPT !.stage = "signed", !.der = providerSignature(probe.r, probe.s),
                            !.back = ECDSA_sign(probe.key, probe.r, probe.s)]
  /\ UNCHANGED <<keys, last, ctr>>

NextEcdsaSig ==
  \/ SigToASN1
  \/ SigFromASN1
  \/ SigSign

SpecEcdsaSig == InitEcdsaSig /\ [][NextEcdsaSig]_vars

\* C29: converting a signature r || s of 2n bytes to DER and back gives the
\* signature again, and sign with a private key returns the 2n bytes r || s,
\* each of r and s padded with zero bytes on the left to n bytes.
C29_SignatureRoundTrip ==
  /\ (probe.phase = "ecdsa sig" /\ probe.stage = "back") => probe.back = Ok(probe.r \o probe.s)
  /\ (probe.phase = "ecdsa sig" /\ probe.stage = "signed" /\ probe.key.type = "private") =>
       /\ probe.back = Ok(probe.r \o probe.s)
       /\ Len(probe.back.val) = 2 * curveInfo(probe.key.namedCurve)

\* A signature for P-521 whose r is all zero and whose s begins with a zero
\* byte before a byte with the most significant bit set has gone to DER and
\* back.
C29_Witness ==
  /\ probe.phase = "ecdsa sig" /\ probe.stage = "back"
  /\ probe.key.namedCurve = "P-521"
  /\ probe.r = Zeros(66)
  /\ probe.s[1] = 0 /\ probe.s[2] = 128
  /\ probe.back = Ok(probe.r \o probe.s)

\* ---------------------------------------------------------------------------
\* Key material and the memory of the caller
\* (lib/idl.js, lib/algorithms/ecdh.js, hmac.js, hkdf.js, aes.js)
\* ---------------------------------------------------------------------------
\* The memory is a sequence of blocks of bytes; a BufferSource or a Buffer is
\* a reference to a block, and two references to one block see each other's
\* writes.
MaxBuffers == 4
ArrayBufferOf(block) == [t |-> "ArrayBuffer", block |-> block]
Uint8ArrayOf(block) == [t |-> "Uint8Array", block |-> block]
BufferOf(block) == [t |-> "Buffer", block |-> block]
Allocated(memory, buffer) == [memory |-> memory, buffer |-> buffer]

\* A Buffer on new memory with the bytes of the block of `source`.
copyOf(memory, source) == Allocated(Append(memory, memory[source.block]), BufferOf(Len(memory) + 1))

\* Buffer.from(source): a view of the memory of an ArrayBuffer, and a copy of
\* the bytes of a Uint8Array or of a Buffer.
Buffer_from(memory, source) ==
  IF source.t = "ArrayBuffer" THEN Allocated(memory, BufferOf(source.block))
  ELSE copyOf(memory, source)

\* bufferFromBufferSource of lib/idl.js with the memory: Buffer.from(source.buffer,
\* source.byteOffset, source.byteLength) for a view and Buffer.from(source)
\* for an ArrayBuffer, both views of the memory of the source.
bufferFromBufferSource_view(memory, source) == Allocated(memory, BufferOf(source.block))

\* crypto.createSecretKey(buf): the key object holds a copy of the bytes.
createSecretKey(memory, buf) == copyOf(memory, buf)

\* importKey('raw', keyData, ...) of ECDH (P-256), AES, HMAC and HKDF: the
\* error, or the memory after the call and the Buffer that is the key
\* material.
raw_importKey(name, memory, keyData) ==
  IF name = sECDH
  THEN LET data == bufferFromBufferSource_view(memory, keyData) IN
       IF Len(memory[data.buffer.block]) # 1 + 2 * curveInfo("P-256") THEN Throw(DataError) ELSE Ok(data)
  ELSE IF name = sAES_CTR
  THEN LET buf == bufferFromBufferSource_view(memory, keyData) IN
       IF Len(memory[buf.buffer.block]) \notin {16, 24, 32} THEN Throw(DataError)
       ELSE Ok(createSecretKey(memory, buf.buffer))
  ELSE LET data == Buffer_from(memory, keyData) IN
       IF name = sHMAC /\ Len(data.memory[data.buffer.block]) = 0 THEN Throw(DataError) ELSE Ok(data)

\* exportKey('raw', key): Buffer.from(key[kKeyMaterial]) for ECDH and HMAC,
\* key[kKeyMaterial].export() for AES, each a Buffer on new memory; HKDF has
\* no exportKey.
raw_exportKey(name, memory, material) ==
  IF name = sHKDF THEN Throw(NotSupportedError) ELSE Ok(copyOf(memory, material))

OwnNames == {sECDH, sAES_CTR, sHMAC, sHKDF}
OwnLengths == {0, 16, 65}
Fill(n, b) == [i \in 1..n |-> b]

NoBuffer == BufferOf(0)
OwnState(memory, name, keyData, material, imported, exported, used) == [phase |-> "own", memory |-> memory, name |-> name, keyData |-> keyData, material |-> material, imported |-> imported, exported |-> exported, used |-> used]

InitOwn ==
  /\ keys = {}
  /\ last = Record("none", NoArgs, Done("ok", Nil, <<>>))
  /\ ctr = NoCtr
  /\ probe = OwnState(<<>>, <<>>, NoBuffer, NoBuffer, <<>>, NoBuffer, <<>>)

\* The caller allocates key data, as an ArrayBuffer or as a Uint8Array, and
\* calls importKey; `imported` keeps the bytes the key data had then.
OwnImportKey ==
  /\ probe.phase = "own" /\ probe.material = NoBuffer
  /\ \E name \in OwnNames, n \in OwnLengths, view \in BOOLEAN :
       LET memory == <<Fill(n, 1)>>
           keyData == IF view THEN Uint8ArrayOf(1) ELSE ArrayBufferOf(1)
           r == raw_importKey(name, memory, keyData) IN
       /\ r.err = ""
       /\ probe' = OwnState(r.val.memory, name, keyData, r.val.buffer, memory[1], NoBuffer, <<>>)
  /\ UNCHANGED <<keys, last, ctr>>

\* The caller writes a byte of the key data it passed to importKey.
OwnWriteKeyData ==
  /\ probe.phase = "own" /\ probe.material # NoBuffer
  /\ \E i \in {1, Len(probe.memory[probe.keyData.block])} \cap DOMAIN probe.memory[probe.keyData.block] :
       /\ probe.memory[probe.keyData.block][i] # 255
       /\ probe' = [probe EXCEPT !.memory[probe.keyData.block][i] = 255]
  /\ UNCHANGED <<keys, last, ctr>>

\* exportKey('raw', key)
OwnExportKey ==
  /\ probe.phase = "own" /\ probe.material # NoBuffer
  /\ Len(probe.memory) < MaxBuffers
  /\ LET r == raw_exportKey(probe.name, probe.memory, probe.material) IN
       /\ r.err = ""
       /\ probe' = [probe EXCEPT !.memory = r.val.memory, !.exported = r.val.buffer]
  /\ UNCHANGED <<keys, last, ctr>>

\* The caller writes a byte of the buffer exportKey returned last.
OwnWriteExported ==
  /\ probe.phase = "own" /\ probe.exported # NoBuffer
  /\ \E i \in {1, Len(probe.memory[probe.exported.block])} \cap DOMAIN probe.memory[probe.exported.block] :
       /\ probe.memory[probe.exported.block][i] # 255
       /\ probe' = [probe EXCEPT !.memory[probe.exported.block][i] = 255]
  /\ UNCHANGED <<keys, last, ctr>>

\* deriveBits with the key as the public key (ECDH), sign (HMAC), encrypt
\* (AES) or deriveBits (HKDF): `used` is the key material the provider reads.
OwnUse ==
  /\ probe.phase = "own" /\ probe.material # NoBuffer
  /\ probe' = [probe EXCEPT !.used = probe.memory[probe.material.block]]
  /\ UNCHANGED <<keys, last, ctr>>

NextOwn ==
  \/ OwnImportKey
  \/ OwnWriteKeyData
  \/ OwnExportKey
  \/ OwnWriteExported
  \/ OwnUse

SpecOwn == InitOwn /\ [][NextOwn]_vars

\* C30: whatever the caller writes afterwards to the key data it imported or
\* to a buffer exportKey returned, the key material stays the bytes that
\* were imported, and so does what a later operation reads as the key.
C30_KeyMaterialOwned ==
  (probe.phase = "own" /\ probe.material # NoBuffer) =>
    /\ probe.memory[probe.material.block] = probe.imported
    /\ probe.used # <<>> => probe.used = probe.imported

====
